---- MODULE Spec2Model ----
(***************************************************************************)
(* N-body / rocket simulation (cpro-iiit/rocket_sim): the physics engine   *)
(* (physics.c), rocket creation (init.c, file_io.c), the rasterizer        *)
(* (render.c) and the run loop (main.c).                                   *)
(*                                                                         *)
(* Numbers.  The program computes in IEEE doubles.  The model computes in  *)
(* decimal fixed point: a real number v is the integer v * ONE, and every  *)
(* product, quotient and square root is rounded to the nearest multiple of *)
(* 1/ONE (sign-symmetric, as IEEE rounding is).  Like the doubles of the   *)
(* program, the model's arithmetic is therefore inexact: a product is not  *)
(* associative and sqrt is not an exact inverse of squaring.               *)
(***************************************************************************)
EXTENDS Integers, Sequences, FiniteSets, TLC

\* ------------------------------------------------------------------------
\* Fixed-point arithmetic standing for the program's double arithmetic
\* ------------------------------------------------------------------------

\* The fixed-point unit: the integer that stands for 1.0 (four decimals).
ONE == 100 * 100

Abs(a) == IF a < 0 THEN 0 - a ELSE a

Sgn(a) == IF a < 0 THEN 0 - 1 ELSE IF a > 0 THEN 1 ELSE 0

Min(a, b) == IF a < b THEN a ELSE b

Max(a, b) == IF a < b THEN b ELSE a

\* A decimal literal n/d of the source (0.01 is Lit(1, 100)).
Lit(n, d) == (n * ONE) \div d

\* |a| * |b| for a, b >= 0, rounded to nearest; the operands are split in an
\* integer and a fractional part so that no intermediate product leaves the
\* 32-bit range of TLC's integers.
MulU(a, b) ==
    LET ah == a \div ONE
        al == a % ONE
        bh == b \div ONE
        bl == b % ONE
    IN  ah * bh * ONE + ah * bl + al * bh + (al * bl + ONE \div 2) \div ONE

\* The double product a * b.
Mul(a, b) == Sgn(a) * Sgn(b) * MulU(Abs(a), Abs(b))

\* The fractional digits of r / b (0 <= r < b), k decimal digits of them,
\* by long division; the result is <<digits, remainder>>.
RECURSIVE FracDigits(_, _, _, _)
FracDigits(r, b, k, acc) ==
    IF k = 0 THEN <<acc, r>>
    ELSE FracDigits((r * 10) % b, b, k - 1, acc * 10 + (r * 10) \div b)

\* |a| / |b| for a >= 0, b > 0, rounded to nearest.
DivU(a, b) ==
    LET fr == FracDigits(a % b, b, 4, 0)
    IN  (a \div b) * ONE + fr[1] + (IF 2 * fr[2] >= b THEN 1 ELSE 0)

\* The double quotient a / b (b # 0: every divisor of the program is a
\* softened distance, which is strictly positive).
Div(a, b) == Sgn(a) * Sgn(b) * DivU(Abs(a), Abs(b))

\* s * s <= a * ONE, for s, a >= 0, without forming either product.
SqLe(s, a) ==
    LET sh == s \div ONE
        sl == s % ONE
        hi == sh * sh * ONE + 2 * sh * sl + (sl * sl) \div ONE
        lo == (sl * sl) % ONE
    IN  hi < a \/ (hi = a /\ lo = 0)

\* The largest s in lo..hi with s * s <= a * ONE (binary search).
RECURSIVE SqrtSearch(_, _, _)
SqrtSearch(lo, hi, a) ==
    IF lo >= hi THEN lo
    ELSE LET mid == (lo + hi + 1) \div 2
         IN  IF SqLe(mid, a) THEN SqrtSearch(mid, hi, a)
             ELSE SqrtSearch(lo, mid - 1, a)

\* The double sqrt(a) for a >= 0, rounded to nearest.  The search stops at
\* 460.0, the largest root whose square the integers hold; the program takes
\* the root of squared distances, which stay far below 460.0 squared.
Sqrt(a) ==
    LET s == SqrtSearch(0, Min(Max(a, ONE), 460 * ONE), a)
        \* (s + 1/2)^2 <= a * ONE  <=>  s^2 + s < a * ONE (integers)
        up == ~SqLe(s + 1, a) /\ LET sh == s \div ONE
                                     sl == s % ONE
                                     hi == sh * sh * ONE + 2 * sh * sl + sh
                                           + (sl * sl + sl) \div ONE
                                 IN  hi < a
    IN  IF up THEN s + 1 ELSE s


\* ------------------------------------------------------------------------
\* Program constants (include/nbody.h)
\* ------------------------------------------------------------------------

WIDTH == 800

HEIGHT == 800

MAX_BODIES == 20

MAX_ROCKETS == 10

\* #define DT 0.01
DT == Lit(1, 100)

\* #define G 1.0
G == Lit(1, 1)

\* #define SOFTENING 0.1
SOFTENING == Lit(1, 10)

\* The radial distance beyond which update_rockets deactivates a rocket.
LEAVE_DISTANCE == Lit(50, 1)

\* The content of a malloc'ed cell that was never written.  No code path
\* reads a trail cell at or beyond trail_length, so one value outside the
\* range of the model's numbers stands for it.
Garbage == 0 - 2147483647

\* ------------------------------------------------------------------------
\* State
\* ------------------------------------------------------------------------

VARIABLES
    bodies,      \* Body bodies[]: records x, y, vx, vy, ax, ay, mass
    n_bodies,    \* the number of bodies in use
    rockets,     \* Rocket rockets[]: records x, y, vx, vy, ax, ay, active,
                 \*   trail_x, trail_y, trail_length, trail_capacity
    n_rockets,   \* the number of rockets in use
    img,         \* the pixel buffer, as the ordered list of paint operations
    config,      \* SimConfig of the run loop
    pc,          \* the run loop's position
    step,        \* the run loop's step counter
    frame_interval, \* the run loop's frame_interval
    frames,      \* the frames generated so far, in order
    writable,    \* whether the output files can be opened for writing
    last,        \* the last call made: its name, arguments and pre-state
    calls,       \* the number of calls made so far
    p0,          \* the total momentum <<px0, py0>> measured before the calls
    file,        \* the bytes of the output file a writer writes
    readback,    \* what the reader of the trajectory dump found in the file
    line         \* the locals of the draw_line call in progress

\* The variables of the run loop alone.
runvars == <<config, pc, step, frame_interval, frames, writable>>

\* The variables of the momentum measurement, of the file writers, of the
\* reader and of the line drawing loop.
outvars == <<p0, file, readback, line>>

vars == <<bodies, n_bodies, rockets, n_rockets, img, runvars, last, calls,
          outvars>>

\* ------------------------------------------------------------------------
\* physics.c
\* ------------------------------------------------------------------------

\* ResetAccelerations left out: the accelerations of the call are added to
\* those already there.
ResetAccelerationsSkipped(bs, n) == bs

\* ResetAccelerations clearing the body from ax to the end of the struct,
\* the mass included.
ResetAccelerationsAndMass(bs, n) ==
    [i \in 1..Len(bs) |->
        IF i <= n THEN [bs[i] EXCEPT !.ax = 0, !.ay = 0, !.mass = 0]
        ELSE bs[i]]

\* compute_forces, lines 16-19: reset the accelerations of bodies 1..n.
ResetAccelerations(bs, n) ==
    [i \in 1..Len(bs) |->
        IF i <= n THEN [bs[i] EXCEPT !.ax = 0, !.ay = 0] ELSE bs[i]]

\* ApplyPair with the contribution to body j added instead of subtracted.
ApplyPairSameSign(bs, i, j, g) ==
    LET dx      == bs[j].x - bs[i].x
        dy      == bs[j].y - bs[i].y
        dist_sq == Mul(dx, dx) + Mul(dy, dy) + Mul(SOFTENING, SOFTENING)
        dist    == Sqrt(dist_sq)
        force   == Div(g, dist_sq)
        fx      == Div(Mul(force, dx), dist)
        fy      == Div(Mul(force, dy), dist)
    IN  [bs EXCEPT ![i].ax = @ + Mul(fx, bs[j].mass),
                   ![i].ay = @ + Mul(fy, bs[j].mass),
                   ![j].ax = @ + Mul(fx, bs[i].mass),
                   ![j].ay = @ + Mul(fy, bs[i].mass)]

\* ApplyPair with equal and opposite accelerations instead of equal and
\* opposite forces: body j is given -(fx * mass_j).
ApplyPairEqualAcceleration(bs, i, j, g) ==
    LET dx      == bs[j].x - bs[i].x
        dy      == bs[j].y - bs[i].y
        dist_sq == Mul(dx, dx) + Mul(dy, dy) + Mul(SOFTENING, SOFTENING)
        dist    == Sqrt(dist_sq)
        force   == Div(g, dist_sq)
        fx      == Div(Mul(force, dx), dist)
        fy      == Div(Mul(force, dy), dist)
    IN  [bs EXCEPT ![i].ax = @ + Mul(fx, bs[j].mass),
                   ![i].ay = @ + Mul(fy, bs[j].mass),
                   ![j].ax = @ - Mul(fx, bs[j].mass),
                   ![j].ay = @ - Mul(fy, bs[j].mass)]

\* compute_forces, lines 25-43: the body of the pair loop for i < j.
ApplyPair(bs, i, j, g) ==
    LET dx      == bs[j].x - bs[i].x
        dy      == bs[j].y - bs[i].y
        dist_sq == Mul(dx, dx) + Mul(dy, dy) + Mul(SOFTENING, SOFTENING)
        dist    == Sqrt(dist_sq)
        force   == Div(g, dist_sq)
        fx      == Div(Mul(force, dx), dist)
        fy      == Div(Mul(force, dy), dist)
    IN  [bs EXCEPT ![i].ax = @ + Mul(fx, bs[j].mass),
                   ![i].ay = @ + Mul(fy, bs[j].mass),
                   ![j].ax = @ - Mul(fx, bs[i].mass),
                   ![j].ay = @ - Mul(fy, bs[i].mass)]

\* compute_forces, lines 22-45: the pair loops, ascending i then ascending j.
RECURSIVE PairLoop(_, _, _, _, _)
PairLoop(bs, i, j, n, g) ==
    IF i > n THEN bs
    ELSE IF j > n THEN PairLoop(bs, i + 1, i + 2, n, g)
    ELSE PairLoop(ApplyPair(bs, i, j, g), i, j + 1, n, g)

compute_forces(bs, n, g) == PairLoop(ResetAccelerations(bs, n), 1, 2, n, g)

\* compute_rocket_forces, lines 62-74: add the pull of bodies j..n_b on r.
RECURSIVE BodyLoop(_, _, _, _, _)
BodyLoop(r, bs, j, n_b, g) ==
    IF j > n_b THEN r
    ELSE LET dx      == bs[j].x - r.x
             dy      == bs[j].y - r.y
             dist_sq == Mul(dx, dx) + Mul(dy, dy) + Mul(SOFTENING, SOFTENING)
             dist    == Sqrt(dist_sq)
             acc     == Div(Mul(g, bs[j].mass), dist_sq)
         IN  BodyLoop([r EXCEPT !.ax = @ + Div(Mul(acc, dx), dist),
                                !.ay = @ + Div(Mul(acc, dy), dist)],
                      bs, j + 1, n_b, g)

\* RocketForce without the skip of inactive rockets (line 55 left out).
RocketForceNoSkip(r, bs, n_b, g) ==
    BodyLoop([r EXCEPT !.ax = 0, !.ay = 0], bs, 1, n_b, g)

\* compute_rocket_forces, lines 55-74, for one rocket.
RocketForce(r, bs, n_b, g) ==
    IF r.active = 0 THEN r
    ELSE BodyLoop([r EXCEPT !.ax = 0, !.ay = 0], bs, 1, n_b, g)

compute_rocket_forces(rs, n_r, bs, n_b, g) ==
    [i \in 1..Len(rs) |->
        IF i <= n_r THEN RocketForce(rs[i], bs, n_b, g) ELSE rs[i]]

\* IntegrateBody as explicit Euler: the position from the pre-step velocity.
IntegrateBodyExplicit(b, dt) ==
    [b EXCEPT !.vx = @ + Mul(b.ax, dt), !.vy = @ + Mul(b.ay, dt),
              !.x = @ + Mul(b.vx, dt), !.y = @ + Mul(b.vy, dt)]

\* update_bodies, lines 93-99, for one body: velocity, then position.
IntegrateBody(b, dt) ==
    LET vx == b.vx + Mul(b.ax, dt)
        vy == b.vy + Mul(b.ay, dt)
    IN  [b EXCEPT !.vx = vx, !.vy = vy,
                  !.x = @ + Mul(vx, dt), !.y = @ + Mul(vy, dt)]

\* update_bodies, lines 92-100: the integration loop over bodies 1..n.
IntegrateBodies(bs, n, dt) ==
    [i \in 1..Len(bs) |-> IF i <= n THEN IntegrateBody(bs[i], dt) ELSE bs[i]]

update_bodies(bs, n, dt, g) == IntegrateBodies(compute_forces(bs, n, g), n, dt)

\* TrailHasRoom off by one: <= for <.
TrailHasRoomOffByOne(r) == r.trail_length <= r.trail_capacity

\* update_rockets, line 125: the trail has room for one more sample.
TrailHasRoom(r) == r.trail_length < r.trail_capacity

\* A write buf[idx] = v of the C program (idx counts from 0).  A write
\* outside the allocation leaves the modelled buffer as it is.
Store(buf, idx, v) ==
    IF idx >= 0 /\ idx < Len(buf) THEN [buf EXCEPT ![idx + 1] = v] ELSE buf

\* update_rockets, lines 125-129: record the position.
RecordTrail(r) ==
    IF TrailHasRoom(r)
    THEN [r EXCEPT !.trail_x = Store(@, r.trail_length, r.x),
                   !.trail_y = Store(@, r.trail_length, r.y),
                   !.trail_length = @ + 1]
    ELSE r

\* LeftArea with >= for >.
LeftAreaInclusive(r) ==
    Sqrt(Mul(r.x, r.x) + Mul(r.y, r.y)) >= LEAVE_DISTANCE

\* update_rockets, lines 132-134: the rocket has left the simulation area.
LeftArea(r) == Sqrt(Mul(r.x, r.x) + Mul(r.y, r.y)) > LEAVE_DISTANCE

\* update_rockets, lines 132-137.
Deactivate(r) == IF LeftArea(r) THEN [r EXCEPT !.active = 0] ELSE r

\* update_rockets, lines 117-122: velocity, then position.
IntegrateRocket(r, dt) ==
    LET vx == r.vx + Mul(r.ax, dt)
        vy == r.vy + Mul(r.ay, dt)
    IN  [r EXCEPT !.vx = vx, !.vy = vy,
                  !.x = @ + Mul(vx, dt), !.y = @ + Mul(vy, dt)]

\* RocketStep with the deactivation check before the trail append: the
\* position that deactivates the rocket is not recorded.
RocketStepCheckFirst(r, dt) ==
    IF r.active = 0 THEN r
    ELSE LET moved == Deactivate(IntegrateRocket(r, dt))
         IN  IF moved.active = 0 THEN moved ELSE RecordTrail(moved)

\* RocketStep with the active flag recomputed from the distance on every
\* call, for inactive rockets too, instead of only ever cleared.
RocketStepRearm(r, dt) ==
    IF r.active = 0
    THEN [r EXCEPT !.active = IF LeftArea(r) THEN 1 ELSE 0]
    ELSE Deactivate(RecordTrail(IntegrateRocket(r, dt)))

\* RocketStep with the trail sample taken before the position update.
RocketStepRecordFirst(r, dt) ==
    IF r.active = 0 THEN r
    ELSE Deactivate(IntegrateRocket(RecordTrail(r), dt))

\* update_rockets, lines 114-137, for one rocket.
RocketStep(r, dt) ==
    IF r.active = 0 THEN r
    ELSE Deactivate(RecordTrail(IntegrateRocket(r, dt)))

\* update_rockets leaving its loop at the first inactive rocket (break for
\* the continue of line 114): the rockets after it are not advanced.
update_rockets_break(rs, n_r, bs, n_b, dt, g) ==
    LET forced   == compute_rocket_forces(rs, n_r, bs, n_b, g)
        inactive == {k \in 1..n_r : forced[k].active = 0}
        first    == IF inactive = {} THEN n_r + 1
                    ELSE CHOOSE k \in inactive : \A j \in inactive : k <= j
    IN  [i \in 1..Len(rs) |->
            IF i < first /\ i <= n_r THEN RocketStep(forced[i], dt)
            ELSE forced[i]]

update_rockets(rs, n_r, bs, n_b, dt, g) ==
    LET forced == compute_rocket_forces(rs, n_r, bs, n_b, g)
    IN  [i \in 1..Len(rs) |->
            IF i <= n_r THEN RocketStep(forced[i], dt) ELSE forced[i]]

\* The (rocket, index) pairs of the trail cells update_rockets writes when
\* called on rs: rocket i (from 1) writes cell trail_length (from 0) after
\* its position update if it is active and TrailHasRoom.
TrailWrites(rs, n_r) ==
    {<<i, rs[i].trail_length>> : i \in {k \in 1..n_r :
                                   rs[k].active # 0 /\ TrailHasRoom(rs[k])}}


\* ------------------------------------------------------------------------
\* render.c
\* ------------------------------------------------------------------------

\* The C conversion (int)v of a double: truncation toward zero.
ToInt(v) == Sgn(v) * (Abs(v) \div ONE)

\* The conversion of an int to unsigned char.
ToUChar(n) == n % 256

\* render, lines 97-100, 112-113, 124-125: (int)(w * scale + WIDTH / 2),
\* where WIDTH / 2 is an integer division.
ProjectX(w, scale) == ToInt(Mul(w, scale) + (WIDTH \div 2) * ONE)

ProjectY(w, scale) == ToInt(Mul(w, scale) + (HEIGHT \div 2) * ONE)

\* Brightness with the number of segments before the newest one as the
\* divisor: the newest segment gets 255.
BrightnessFullRange(t, trail_length) ==
    100 + (155 * t) \div (IF trail_length > 2 THEN trail_length - 2 ELSE 1)

\* render, lines 103-104: the brightness of trail segment t (from 0).
Brightness(t, trail_length) ==
    100 + (155 * t) \div (IF trail_length > 0 THEN trail_length ELSE 1)

InBuffer(px, py) == px >= 0 /\ px < WIDTH /\ py >= 0 /\ py < HEIGHT

\* A call draw_line(img, x1, y1, x2, y2, r, g, b).
LineOp(x1, y1, x2, y2, r, g, b) ==
    [kind |-> "line", at |-> <<x1, y1, x2, y2>>,
     rgb |-> <<ToUChar(r), ToUChar(g), ToUChar(b)>>]

\* A call draw_circle(img, cx, cy, radius, r, g, b).
CircleOp(cx, cy, radius, r, g, b) ==
    [kind |-> "circle", at |-> <<cx, cy, radius>>,
     rgb |-> <<ToUChar(r), ToUChar(g), ToUChar(b)>>]

\* render, lines 96-108: the segments of one rocket's trail, oldest first.
TrailOps(r, scale) ==
    [t1 \in 1..(r.trail_length - 1) |->
        LET t == t1 - 1
            brightness == Brightness(t, r.trail_length)
        IN  LineOp(ProjectX(r.trail_x[t + 1], scale),
                   ProjectY(r.trail_y[t + 1], scale),
                   ProjectX(r.trail_x[t + 2], scale),
                   ProjectY(r.trail_y[t + 2], scale),
                   brightness, brightness \div 2, brightness \div 2)]

\* MarkerOps for active rockets only.
MarkerOpsActiveOnly(r, scale) ==
    LET px == ProjectX(r.x, scale)
        py == ProjectY(r.y, scale)
    IN  IF r.active # 0 /\ r.trail_length > 0 /\ InBuffer(px, py)
        THEN <<CircleOp(px, py, 4, 255, 50, 50)>>
        ELSE <<>>

\* render, lines 111-119: the marker at the rocket's current position.
MarkerOps(r, scale) ==
    LET px == ProjectX(r.x, scale)
        py == ProjectY(r.y, scale)
    IN  IF r.trail_length > 0 /\ InBuffer(px, py)
        THEN <<CircleOp(px, py, 4, 255, 50, 50)>>
        ELSE <<>>

\* render, lines 94-120: the rockets i..n_r, in index order.
RECURSIVE RocketOps(_, _, _, _)
RocketOps(rs, i, n_r, scale) ==
    IF i > n_r THEN <<>>
    ELSE TrailOps(rs[i], scale) \o MarkerOps(rs[i], scale)
         \o RocketOps(rs, i + 1, n_r, scale)

\* render, lines 124-139: the disc of body i (from 1; the C index is i - 1).
BodyOp(b, i, scale) ==
    LET px == ProjectX(b.x, scale)
        py == ProjectY(b.y, scale)
        c  == i - 1
    IN  IF ~InBuffer(px, py) THEN <<>>
        ELSE IF c = 0 THEN <<CircleOp(px, py, 8, 255, 255, 100)>>
        ELSE <<CircleOp(px, py, 4, 100 + c * 30, 150, 255)>>

\* render, lines 123-140: the bodies i..n_b, in index order.
RECURSIVE BodyOps(_, _, _, _)
BodyOps(bs, i, n_b, scale) ==
    IF i > n_b THEN <<>>
    ELSE BodyOp(bs[i], i, scale) \o BodyOps(bs, i + 1, n_b, scale)

\* Clear with the memset left out: the buffer keeps what it held.
ClearNothing(buf) == buf

\* render, line 75: memset(img, 0, WIDTH * HEIGHT * sizeof(Pixel)) sets every
\* pixel of the buffer to (0, 0, 0); nothing painted before it is left.
Clear(buf) == <<[kind |-> "clear", at |-> <<>>, rgb |-> <<0, 0, 0>>]>>

\* render, lines 78-91: every 50th column and every 50th row.
GridOp == [kind |-> "grid", at |-> <<50>>, rgb |-> <<20, 20, 20>>]

\* render on the buffer buf: the buffer is cleared (line 75), the grid drawn
\* (lines 78-91), then the rockets and then the bodies are painted.
render(bs, n_b, rs, n_r, buf, scale) ==
    Clear(buf) \o <<GridOp>>
    \o RocketOps(rs, 1, n_r, scale) \o BodyOps(bs, 1, n_b, scale)

\* The range of int, the type of draw_line's coordinates and error term.
INT_MAX == 2147483647

INT_MIN == 0 - INT_MAX - 1

\* Whether the int sum a + b leaves the range of int.
AddOverflows(a, b) ==
    \/ a > 0 /\ b > 0 /\ a > INT_MAX - b
    \/ a < 0 /\ b < 0 /\ a < INT_MIN - b

\* The int sum a + b as the two's complement hardware computes it: the
\* value modulo 2^32.
WrapAdd(a, b) ==
    IF a > 0 /\ b > 0 /\ a > INT_MAX - b
    THEN (a - INT_MAX - 1) + (b - INT_MAX - 1)
    ELSE IF a < 0 /\ b < 0 /\ a < INT_MIN - b
    THEN (a + INT_MAX + 1) + (b + INT_MAX + 1)
    ELSE a + b

\* draw_line, lines 30-38: one pass through the loop body after the break
\* test, from (x, y) with error term err.  ln holds x2, y2, dx, dy, sx, sy.
LineStep(x, y, err, ln) ==
    LET e2   == WrapAdd(err, err)
        movx == e2 > 0 - ln.dy
        movy == e2 < ln.dx
        err1 == IF movx THEN WrapAdd(err, 0 - ln.dy) ELSE err
    IN  [x   |-> IF movx THEN x + ln.sx ELSE x,
         y   |-> IF movy THEN y + ln.sy ELSE y,
         err |-> IF movy THEN WrapAdd(err1, ln.dx) ELSE err1]

\* Whether one of the int operations of that pass (2 * err, err -= dy,
\* err += dx) overflows, which C leaves undefined.
LineStepOverflows(err, ln) ==
    LET e2   == WrapAdd(err, err)
        movx == e2 > 0 - ln.dy
        movy == e2 < ln.dx
        err1 == IF movx THEN WrapAdd(err, 0 - ln.dy) ELSE err
    IN  \/ AddOverflows(err, err)
        \/ movx /\ AddOverflows(err, 0 - ln.dy)
        \/ movy /\ AddOverflows(err1, ln.dx)

\* draw_line, lines 14-20: the locals before the loop.
LineLocals(x1, y1, x2, y2) ==
    [x1 |-> x1, y1 |-> y1, x2 |-> x2, y2 |-> y2,
     dx |-> Abs(x2 - x1), dy |-> Abs(y2 - y1),
     sx |-> IF x1 < x2 THEN 1 ELSE 0 - 1,
     sy |-> IF y1 < y2 THEN 1 ELSE 0 - 1,
     err |-> Abs(x2 - x1) - Abs(y2 - y1),
     x |-> x1, y |-> y1]

\* draw_line, lines 21-39: the points (x, y) the loop visits from (x, y)
\* with error term err, added to acc.  ln holds x2, y2, dx, dy, sx, sy.
RECURSIVE LineWalk(_, _, _, _, _)
LineWalk(x, y, err, ln, acc) ==
    IF x = ln.x2 /\ y = ln.y2 THEN acc \cup {<<x, y>>}
    ELSE LET e2   == 2 * err
             movx == e2 > 0 - ln.dy
             movy == e2 < ln.dx
         IN  LineWalk(IF movx THEN x + ln.sx ELSE x,
                      IF movy THEN y + ln.sy ELSE y,
                      err - (IF movx THEN ln.dy ELSE 0)
                          + (IF movy THEN ln.dx ELSE 0),
                      ln, acc \cup {<<x, y>>})

\* draw_line, lines 14-20: the points visited between the two end points.
LinePoints(x1, y1, x2, y2) ==
    LET dx == Abs(x2 - x1)
        dy == Abs(y2 - y1)
    IN  LineWalk(x1, y1, dx - dy,
                 [x2 |-> x2, y2 |-> y2, dx |-> dx, dy |-> dy,
                  sx |-> IF x1 < x2 THEN 1 ELSE 0 - 1,
                  sy |-> IF y1 < y2 THEN 1 ELSE 0 - 1], {})

\* draw_circle, lines 48-52: the points of the disc of the given radius.
CirclePoints(cx, cy, radius) ==
    {<<cx + dx, cy + dy>> : <<dx, dy>> \in
        {d \in ((0 - radius)..radius) \X ((0 - radius)..radius) :
            d[1] * d[1] + d[2] * d[2] <= radius * radius}}

\* Clip without the bounds check: every point of the shape is written.
ClipNothing(points) == points

\* draw_line, line 22, and draw_circle, line 53: a point is written only
\* if it lies in the buffer.
Clip(points) == {q \in points : InBuffer(q[1], q[2])}

\* The pixels <<x, y>> a draw_line or draw_circle call writes.
ShapeWrites(op) ==
    IF op.kind = "line"
    THEN Clip(LinePoints(op.at[1], op.at[2], op.at[3], op.at[4]))
    ELSE IF op.kind = "circle"
    THEN Clip(CirclePoints(op.at[1], op.at[2], op.at[3]))
    ELSE {}

\* The pixels the grid loops write: i = 0, 50, ... < WIDTH with every j, and
\* j = 0, 50, ... < HEIGHT with every i (lines 78-91).
OnGrid(x, y) ==
    \/ (0 <= x /\ x < WIDTH /\ x % 50 = 0) /\ (0 <= y /\ y < HEIGHT)
    \/ (0 <= y /\ y < HEIGHT /\ y % 50 = 0) /\ (0 <= x /\ x < WIDTH)

\* The pixels each operation painted on the buffer has written with
\* draw_line or draw_circle: the pairs <<k, ShapeWrites(buf[k])>>.
Layers(buf) == {<<k, ShapeWrites(buf[k])>> : k \in DOMAIN buf}

\* The colour <<r, g, b>> of pixel (x, y) after the first k operations
\* painted on the buffer: that of the last one that wrote the pixel.  A
\* pixel of the malloc'ed buffer that was never written holds no defined
\* value.
RECURSIVE PixelAfter(_, _, _, _, _)
PixelAfter(buf, layers, k, x, y) ==
    IF k = 0 THEN <<Garbage, Garbage, Garbage>>
    ELSE IF \/ buf[k].kind = "clear" /\ InBuffer(x, y)
            \/ buf[k].kind = "grid" /\ OnGrid(x, y)
            \/ \E l \in layers : l[1] = k /\ <<x, y>> \in l[2]
         THEN buf[k].rgb
         ELSE PixelAfter(buf, layers, k - 1, x, y)

\* The colour of pixel (x, y) of the buffer.
PixelAt(buf, layers, x, y) == PixelAfter(buf, layers, Len(buf), x, y)


\* ------------------------------------------------------------------------
\* Creation of bodies and rockets (init.c, file_io.c, the tests)
\* ------------------------------------------------------------------------

\* #define STEPS 5000, scaled down: the capacity init_rockets_default and
\* load_rockets give a trail, and the default number of steps of a run.
STEPS == 3

\* A body as load_bodies (lines 28-34) and the tests create it.
NewBody(x, y, vx, vy, mass) ==
    [x |-> x, y |-> y, vx |-> vx, vy |-> vy, ax |-> 0, ay |-> 0,
     mass |-> mass]

\* malloc(capacity * sizeof(double)).
Malloc(capacity) == [k \in 1..capacity |-> Garbage]

\* A rocket as the tests create it: active, with a trail buffer of the
\* given capacity whose first len cells (0 or 1) hold the start position.
NewRocket(x, y, vx, vy, capacity, len) ==
    [x |-> x, y |-> y, vx |-> vx, vy |-> vy, ax |-> 0, ay |-> 0,
     active |-> 1,
     trail_x |-> IF len > 0 THEN Store(Malloc(capacity), 0, x)
                 ELSE Malloc(capacity),
     trail_y |-> IF len > 0 THEN Store(Malloc(capacity), 0, y)
                 ELSE Malloc(capacity),
     trail_length |-> len, trail_capacity |-> capacity]

\* load_rockets, lines 67-82: a rocket read from a line "x y vx vy".
LoadedRocket(x, y, vx, vy) == NewRocket(x, y, vx, vy, STEPS, 1)


\* ------------------------------------------------------------------------
\* Specification Spec: any sequence of calls of the physics and rendering
\* functions on a system of bodies and rockets set up as the tests do
\* ------------------------------------------------------------------------

\* The number of calls a behaviour makes.
MaxCalls == 3

\* The largest trail capacity a test rocket is created with.
TrailCap == 2

\* The (dt, g) arguments of a call.
Params ==
    {[dt |-> Lit(1, 100), g |-> Lit(1, 1)],
     [dt |-> Lit(1, 100), g |-> 0]}

\* The g arguments of a call.
Gs == {p.g : p \in Params}

\* The body systems: a lone central mass (test_rocket_forces), and a star
\* with a planet in orbit (test_energy_conservation).
BodySystems ==
    {<<NewBody(0, 0, 0, 0, Lit(100, 1))>>,
     <<NewBody(0, 0, 0, 0, Lit(100, 1)),
       NewBody(Lit(3, 1), 0, 0, Lit(5, 1), Lit(1, 1))>>}

\* The start positions and velocities <<x, y, vx, vy>> of the first rocket:
\* in orbit (test_multiple_rockets); heading outwards so that it stands at
\* radial distance 50.0 exactly after one coasting step of 0.01; at rest at
\* distance 50.0 exactly; heading outwards and outside after one step.
RocketStarts ==
    {<<Lit(3, 1), 0, 0, Lit(5, 1)>>,
     <<Lit(49, 1), 0, Lit(100, 1), 0>>,
     <<Lit(30, 1), Lit(40, 1), 0, 0>>,
     <<Lit(99, 2), 0, Lit(100, 1), 0>>}

\* The last call: its name and arguments (the scale and the buffer of a
\* render call, the buffer and the size <<w, h>> of a write_bmp call), the
\* bodies and rockets it was made on, the trail cells it wrote, the value
\* of step at the call, the bodies the call before it was made on, and for
\* a loader whether it could open its file and what it returned.
Call(op, dt, g, writes) ==
    [op |-> op, dt |-> dt, g |-> g, bodies |-> bodies, rockets |-> rockets,
     writes |-> writes, step |-> step, prev_bodies |-> last.bodies,
     scale |-> 0, buffer |-> <<>>, size |-> <<>>, ok |-> TRUE,
     ret |-> 0]

\* A call of render with the given scale, on the buffer as it is.
RenderCall(scale) ==
    [Call("render", 0, 0, {}) EXCEPT !.scale = scale, !.buffer = img]

NoCall == [op |-> "none", dt |-> 0, g |-> 0, bodies |-> <<>>,
           rockets |-> <<>>, writes |-> {}, step |-> 0, prev_bodies |-> <<>>,
           scale |-> 0, buffer |-> <<>>, size |-> <<>>, ok |-> TRUE,
           ret |-> 0]

\* The default configuration, main.c line 19 (FRAMES scaled down as STEPS).
FRAMES == 2

DefaultConfig ==
    [dt |-> DT, steps |-> STEPS, frames |-> FRAMES,
     save_interval |-> STEPS \div FRAMES, g |-> G]

Init ==
    /\ bodies \in BodySystems
    /\ n_bodies = Len(bodies)
    /\ \E s \in RocketStarts, cap \in 1..TrailCap, len \in 0..1 :
          rockets = <<NewRocket(s[1], s[2], s[3], s[4], cap, len),
                      NewRocket(Lit(4, 1), 0, 0, Lit(5, 1), TrailCap, 1)>>
    /\ n_rockets = 2
    /\ img = <<>>
    /\ config = DefaultConfig
    /\ pc = "api"
    /\ step = 0
    /\ frame_interval = 0
    /\ frames = <<>>
    /\ writable = TRUE
    /\ last = NoCall
    /\ calls = 0
    /\ p0 = <<0, 0>>
    /\ file = <<>>
    /\ readback = <<>>
    /\ line = <<>>

\* compute_rocket_forces(rockets, n_rockets, bodies, n_bodies, g)
ComputeRocketForces ==
    /\ calls < MaxCalls
    /\ \E g \in Gs :
          /\ rockets' = compute_rocket_forces(rockets, n_rockets, bodies,
                                              n_bodies, g)
          /\ last' = Call("compute_rocket_forces", 0, g, {})
    /\ calls' = calls + 1
    /\ UNCHANGED outvars
    /\ UNCHANGED <<bodies, n_bodies, n_rockets, img, runvars>>

\* update_bodies(bodies, n_bodies, dt, g)
UpdateBodies ==
    /\ calls < MaxCalls
    /\ \E p \in Params :
          /\ bodies' = update_bodies(bodies, n_bodies, p.dt, p.g)
          /\ last' = Call("update_bodies", p.dt, p.g, {})
    /\ calls' = calls + 1
    /\ UNCHANGED outvars
    /\ UNCHANGED <<n_bodies, rockets, n_rockets, img, runvars>>

\* update_rockets(rockets, n_rockets, bodies, n_bodies, dt, g)
UpdateRockets ==
    /\ calls < MaxCalls
    /\ \E p \in Params :
          /\ rockets' = update_rockets(rockets, n_rockets, bodies, n_bodies,
                                       p.dt, p.g)
          /\ last' = Call("update_rockets", p.dt, p.g,
                          TrailWrites(rockets, n_rockets))
    /\ calls' = calls + 1
    /\ UNCHANGED outvars
    /\ UNCHANGED <<bodies, n_bodies, n_rockets, img, runvars>>

\* render(bodies, n_bodies, rockets, n_rockets, img, scale), scale 50.0 as
\* in main.c line 53.
Render ==
    /\ calls < MaxCalls
    /\ img' = render(bodies, n_bodies, rockets, n_rockets, img, Lit(50, 1))
    /\ last' = RenderCall(Lit(50, 1))
    /\ calls' = calls + 1
    /\ UNCHANGED outvars
    /\ UNCHANGED <<bodies, n_bodies, rockets, n_rockets, runvars>>

Next ==
    \/ ComputeRocketForces
    \/ UpdateBodies
    \/ UpdateRockets
    \/ Render

Spec == Init /\ [][Next]_vars


\* ------------------------------------------------------------------------
\* Properties of the trail recorder and the integrator (Spec)
\* ------------------------------------------------------------------------

Rockets == 1..n_rockets

Bodies == 1..n_bodies

\* The radial distance sqrt(x^2 + y^2) of a rocket from the origin.
Radial(r) == Sqrt(Mul(r.x, r.x) + Mul(r.y, r.y))

\* The first n cells of trail buffers p and q hold the same samples.
SamePrefix(p, q, n) ==
    \A k \in 1..n : p.trail_x[k] = q.trail_x[k] /\ p.trail_y[k] = q.trail_y[k]

\* C1: in every state reached by update_bodies, update_rockets and render
\* calls (and compute_rocket_forces calls) from rockets created with
\* 0 <= trail_length <= trail_capacity, every rocket has
\* 0 <= trail_length <= trail_capacity, and every trail cell the last
\* update_rockets call wrote has an index strictly below trail_capacity.
C1_TrailWithinCapacity ==
    /\ \A i \in Rockets :
          /\ 0 <= rockets[i].trail_length
          /\ rockets[i].trail_length <= rockets[i].trail_capacity
          /\ Len(rockets[i].trail_x) = rockets[i].trail_capacity
          /\ Len(rockets[i].trail_y) = rockets[i].trail_capacity
    /\ \A w \in last.writes :
          0 <= w[2] /\ w[2] < rockets[w[1]].trail_capacity

\* C1 witness: update_rockets has just stepped an active rocket whose trail
\* was already full, and the trail is still exactly full.
C1_Witness ==
    /\ last.op = "update_rockets"
    /\ \E i \in Rockets :
          /\ last.rockets[i].active = 1
          /\ last.rockets[i].trail_length = last.rockets[i].trail_capacity
          /\ rockets[i].trail_length = rockets[i].trail_capacity
          /\ rockets[i].x # last.rockets[i].x

\* C2: deactivation is one-way: no step turns a rocket whose active flag is
\* false back to active.
C2_DeactivationOneWay ==
    [][\A i \in Rockets : rockets[i].active = 0 => rockets'[i].active = 0]_vars

\* C2 witness: update_rockets was called on a rocket that was already
\* inactive, and the rocket is inactive after the call.
C2_Witness ==
    /\ last.op = "update_rockets"
    /\ \E i \in Rockets :
          last.rockets[i].active = 0 /\ rockets[i].active = 0

\* C3: compute_rocket_forces and update_rockets leave every field of an
\* inactive rocket, the trail cells included, as it was before the call.
C3_InactiveUntouched ==
    last.op \in {"compute_rocket_forces", "update_rockets"} =>
        \A i \in Rockets :
            last.rockets[i].active = 0 => rockets[i] = last.rockets[i]

\* C3 witness: a call with gravity on was made on an inactive rocket whose
\* stored acceleration is zero although the bodies pull on it: a
\* recomputation would have changed it.
C3_Witness ==
    /\ last.op \in {"compute_rocket_forces", "update_rockets"}
    /\ last.g # 0
    /\ \E i \in Rockets :
          /\ last.rockets[i].active = 0
          /\ last.rockets[i].trail_length > 0
          /\ BodyLoop([last.rockets[i] EXCEPT !.ax = 0, !.ay = 0],
                      last.bodies, 1, n_bodies, last.g).ax
                # last.rockets[i].ax

\* C4: no step decreases a rocket's trail_length or changes a recorded
\* sample, and each update_rockets call on an active rocket with
\* trail_length < trail_capacity increases trail_length by exactly 1 and
\* stores the post-step (x, y) as the new last sample.
C4_TrailAppendOnly ==
    [][\A i \in Rockets :
          /\ rockets'[i].trail_length >= rockets[i].trail_length
          /\ SamePrefix(rockets'[i], rockets[i], rockets[i].trail_length)
          /\ (/\ last'.op = "update_rockets"
              /\ rockets[i].active = 1
              /\ rockets[i].trail_length < rockets[i].trail_capacity)
             => /\ rockets'[i].trail_length = rockets[i].trail_length + 1
                /\ rockets'[i].trail_x[rockets'[i].trail_length]
                      = rockets'[i].x
                /\ rockets'[i].trail_y[rockets'[i].trail_length]
                      = rockets'[i].y]_vars

\* C4 witness: update_rockets has appended a sample that differs from the
\* sample recorded before it.
C4_Witness ==
    /\ last.op = "update_rockets"
    /\ \E i \in Rockets :
          /\ last.rockets[i].active = 1
          /\ last.rockets[i].trail_length >= 1
          /\ rockets[i].trail_length = last.rockets[i].trail_length + 1
          /\ rockets[i].trail_x[rockets[i].trail_length]
                # rockets[i].trail_x[rockets[i].trail_length - 1]

\* C5: after update_rockets, a rocket that was active before the call is
\* inactive if and only if its post-step radial distance is strictly greater
\* than 50.0; a full trail does not deactivate it.
C5_DeactivationRule ==
    last.op = "update_rockets" =>
        \A i \in Rockets :
            last.rockets[i].active = 1 =>
                (rockets[i].active = 0 <=> Radial(rockets[i]) > Lit(50, 1))

\* C5 witness: update_rockets has moved a rocket onto radial distance 50.0
\* exactly, with its trail full, and the rocket is still active.
C5_Witness ==
    /\ last.op = "update_rockets"
    /\ \E i \in Rockets :
          /\ last.rockets[i].active = 1
          /\ Radial(last.rockets[i]) < Lit(50, 1)
          /\ Radial(rockets[i]) = Lit(50, 1)
          /\ rockets[i].trail_length = rockets[i].trail_capacity
          /\ rockets[i].active = 1

\* C5 witness, the other direction: update_rockets has moved a rocket
\* beyond 50.0 and deactivated it.
C5_WitnessLeft ==
    /\ last.op = "update_rockets"
    /\ \E i \in Rockets :
          /\ last.rockets[i].active = 1
          /\ Radial(rockets[i]) > Lit(50, 1)
          /\ rockets[i].active = 0

\* C7: update_bodies and update_rockets are semi-implicit Euler steps: the
\* new velocity is v + a * dt with a the acceleration computed in this call
\* from the pre-step positions, and the new position is x + v_new * dt with
\* the updated velocity.
C7_SemiImplicitEuler ==
    /\ last.op = "update_bodies" =>
          LET acc == compute_forces(last.bodies, n_bodies, last.g)
          IN  \A i \in Bodies :
                 /\ bodies[i].ax = acc[i].ax
                 /\ bodies[i].ay = acc[i].ay
                 /\ bodies[i].vx = last.bodies[i].vx + Mul(acc[i].ax, last.dt)
                 /\ bodies[i].vy = last.bodies[i].vy + Mul(acc[i].ay, last.dt)
                 /\ bodies[i].x = last.bodies[i].x + Mul(bodies[i].vx, last.dt)
                 /\ bodies[i].y = last.bodies[i].y + Mul(bodies[i].vy, last.dt)
    /\ last.op = "update_rockets" =>
          LET acc == compute_rocket_forces(last.rockets, n_rockets,
                                           last.bodies, n_bodies, last.g)
          IN  \A i \in Rockets :
                 last.rockets[i].active = 1 =>
                    /\ rockets[i].ax = acc[i].ax
                    /\ rockets[i].ay = acc[i].ay
                    /\ rockets[i].vx
                          = last.rockets[i].vx + Mul(acc[i].ax, last.dt)
                    /\ rockets[i].vy
                          = last.rockets[i].vy + Mul(acc[i].ay, last.dt)
                    /\ rockets[i].x
                          = last.rockets[i].x + Mul(rockets[i].vx, last.dt)
                    /\ rockets[i].y
                          = last.rockets[i].y + Mul(rockets[i].vy, last.dt)

\* C7 witness: update_bodies has moved a body to a position that the
\* pre-step velocity would not have given, and update_rockets has done so
\* for a rocket in an earlier call.
C7_Witness ==
    /\ last.op = "update_bodies"
    /\ \E i \in Bodies :
          bodies[i].x # last.bodies[i].x + Mul(last.bodies[i].vx, last.dt)
    /\ \E i \in Rockets :
          /\ rockets[i].trail_length >= 2
          /\ rockets[i].ax # 0


\* C12: rockets exert no force on bodies: compute_rocket_forces and
\* update_rockets leave every field of every body as it was before the
\* call, and neither compute_forces (the first half of update_bodies) nor
\* update_bodies as a whole changes the mass of a body.
C12_RocketsLeaveBodies ==
    /\ last.op \in {"compute_rocket_forces", "update_rockets"} =>
          bodies = last.bodies
    /\ last.op = "update_bodies" =>
          LET forced == compute_forces(last.bodies, n_bodies, last.g)
          IN  \A i \in Bodies :
                 /\ forced[i].mass = last.bodies[i].mass
                 /\ bodies[i].mass = last.bodies[i].mass

\* C12 witness: update_rockets has accelerated a rocket towards bodies that
\* an earlier update_bodies call had set in motion, and the bodies are as
\* they were before the call, accelerations included.
C12_Witness ==
    /\ last.op = "update_rockets"
    /\ last.g # 0
    /\ n_bodies = 2
    /\ bodies[2].ax # 0
    /\ bodies[2].vx # 0
    /\ bodies = last.bodies
    /\ \E i \in Rockets :
          /\ last.rockets[i].active = 1
          /\ rockets[i].ax # 0
          /\ rockets[i].vx # last.rockets[i].vx


\* ------------------------------------------------------------------------
\* Specification SpecKernel: the force kernels applied to drawn inputs
\* ------------------------------------------------------------------------

\* The number of kernel calls a behaviour makes.
KernelCalls == 2

\* The position of the second body (the first is at the origin): at distance
\* 2.0 (test_two_body_force), at distance 5.0 (test_force_symmetry), and
\* off the axes.
KernelPositions ==
    {<<Lit(2, 1), 0>>, <<Lit(3, 1), Lit(4, 1)>>, <<Lit(17, 10), Lit(7, 100)>>}

\* The masses of the first and of the second body.
KernelMasses0 == {Lit(10, 1), Lit(100, 1), Lit(5, 2)}

KernelMasses1 == {Lit(5, 1), Lit(20, 1), Lit(3, 10)}

\* The g arguments of a kernel call.
KernelGs == {Lit(1, 1), Lit(5, 2)}

\* The acceleration fields of a body on the stack that was never assigned.
StackGarbage == {0, Lit(7, 1)}

\* Two bodies as test_two_body_force sets them up (ax, ay not assigned), and
\* a rocket at (3, 4) as test_rocket_forces sets it up.
KernelInit ==
    /\ \E p \in KernelPositions, m0 \in KernelMasses0, m1 \in KernelMasses1,
          a \in StackGarbage :
          bodies = <<[NewBody(0, 0, 0, 0, m0) EXCEPT !.ax = a, !.ay = 0 - a],
                     [NewBody(p[1], p[2], 0, 0, m1) EXCEPT !.ax = a]>>
    /\ n_bodies = 2
    /\ rockets = <<NewRocket(Lit(3, 1), Lit(4, 1), 0, 0, 1, 1)>>
    /\ n_rockets = 1
    /\ img = <<>>
    /\ config = DefaultConfig
    /\ pc = "kernel"
    /\ step = 0
    /\ frame_interval = 0
    /\ frames = <<>>
    /\ writable = TRUE
    /\ last = NoCall
    /\ calls = 0
    /\ p0 = <<0, 0>>
    /\ file = <<>>
    /\ readback = <<>>
    /\ line = <<>>

\* compute_forces(bodies, 2, g)
KernelForces ==
    /\ calls < KernelCalls
    /\ \E g \in KernelGs :
          /\ bodies' = compute_forces(bodies, n_bodies, g)
          /\ last' = Call("compute_forces", 0, g, {})
    /\ calls' = calls + 1
    /\ UNCHANGED outvars
    /\ UNCHANGED <<n_bodies, rockets, n_rockets, img, runvars>>

\* compute_rocket_forces(rockets, 1, bodies, 1, g): the pull of the first
\* body alone, as in test_rocket_forces.
KernelRocketForces ==
    /\ calls < KernelCalls
    /\ \E g \in KernelGs :
          /\ rockets' = compute_rocket_forces(rockets, n_rockets, bodies, 1, g)
          /\ last' = Call("compute_rocket_forces", 0, g, {})
    /\ calls' = calls + 1
    /\ UNCHANGED outvars
    /\ UNCHANGED <<bodies, n_bodies, n_rockets, img, runvars>>

KernelNext == KernelForces \/ KernelRocketForces

SpecKernel == KernelInit /\ [][KernelNext]_vars

\* ------------------------------------------------------------------------
\* Properties of the force kernels (SpecKernel)
\* ------------------------------------------------------------------------

\* |v - e| < 1e-6 (EPSILON of test_physics.c).
WithinEpsilon(v, e) == Abs(v - e) < ONE /\ Abs(v - e) * 1000000 < ONE

\* The mass-weighted accelerations of the two bodies, <<x, y>> components.
Weighted(i) ==
    <<Mul(bodies[i].mass, bodies[i].ax), Mul(bodies[i].mass, bodies[i].ay)>>

\* C9 as claimed: after compute_forces on two bodies,
\* mass_0 * accel_0 = -(mass_1 * accel_1) component-wise, exactly.
C9_ExactlyOpposite ==
    last.op = "compute_forces" =>
        /\ Weighted(1)[1] = 0 - Weighted(2)[1]
        /\ Weighted(1)[2] = 0 - Weighted(2)[2]

\* The rounding error of mass_0 * accel_0 + mass_1 * accel_1: the two
\* accelerations are fx * mass_1 and -(fx * mass_0) for one and the same fx,
\* each product rounded once (half a unit in the last place), and each is
\* multiplied by the other mass and rounded once more.
RoundingBound == (bodies[1].mass + bodies[2].mass) \div (2 * ONE) + 2

\* C9 as amended: after compute_forces on two bodies, mass_0 * accel_0 and
\* -(mass_1 * accel_1) agree component-wise up to the rounding error of the
\* products, and no component of the two accelerations has the same sign.
C9_OppositeWithinRounding ==
    last.op = "compute_forces" =>
        /\ Abs(Weighted(1)[1] + Weighted(2)[1]) <= RoundingBound
        /\ Abs(Weighted(1)[2] + Weighted(2)[2]) <= RoundingBound
        /\ Sgn(bodies[1].ax) * Sgn(bodies[2].ax) <= 0
        /\ Sgn(bodies[1].ay) * Sgn(bodies[2].ay) <= 0

\* C9 witness: compute_forces has given two bodies non-zero accelerations
\* whose mass-weighted values are not exactly opposite.
C9_Witness ==
    /\ last.op = "compute_forces"
    /\ bodies[1].ax # 0 /\ bodies[2].ax # 0
    /\ Weighted(1)[1] # 0 - Weighted(2)[1]

\* The inputs of test_two_body_force: masses 10 and 5 at distance 2.0.
TwoBodyTestInput(bs) ==
    /\ bs[1].x = 0 /\ bs[1].y = 0 /\ bs[1].mass = Lit(10, 1)
    /\ bs[2].x = Lit(2, 1) /\ bs[2].y = 0 /\ bs[2].mass = Lit(5, 1)

\* The inputs of test_rocket_forces: a mass of 100 at the origin and an
\* active rocket at (3, 4), distance 5.0.
RocketTestInput(bs, rs) ==
    /\ bs[1].x = 0 /\ bs[1].y = 0 /\ bs[1].mass = Lit(100, 1)
    /\ rs[1].x = Lit(3, 1) /\ rs[1].y = Lit(4, 1) /\ rs[1].active = 1

\* C10: on the inputs of the tests with g = 1.0, compute_forces gives body 0
\* the acceleration 1.25 and compute_rocket_forces gives the rocket an
\* acceleration of magnitude 4.0, both to within 1e-6.
C10_TestedMagnitudes ==
    /\ (/\ last.op = "compute_forces"
        /\ last.g = Lit(1, 1)
        /\ TwoBodyTestInput(last.bodies))
       => WithinEpsilon(bodies[1].ax, Lit(125, 100))
    /\ (/\ last.op = "compute_rocket_forces"
        /\ last.g = Lit(1, 1)
        /\ RocketTestInput(last.bodies, last.rockets))
       => WithinEpsilon(Sqrt(Mul(rockets[1].ax, rockets[1].ax)
                             + Mul(rockets[1].ay, rockets[1].ay)),
                        Lit(4, 1))

\* C10, the body half alone.
C10_BodyMagnitude ==
    (/\ last.op = "compute_forces"
     /\ last.g = Lit(1, 1)
     /\ TwoBodyTestInput(last.bodies))
    => WithinEpsilon(bodies[1].ax, Lit(125, 100))

\* C10, the rocket half alone.
C10_RocketMagnitude ==
    (/\ last.op = "compute_rocket_forces"
     /\ last.g = Lit(1, 1)
     /\ RocketTestInput(last.bodies, last.rockets))
    => WithinEpsilon(Sqrt(Mul(rockets[1].ax, rockets[1].ax)
                          + Mul(rockets[1].ay, rockets[1].ay)),
                     Lit(4, 1))

\* What the kernels give on the inputs of the tests: the softened values
\* g * M * d / (d^2 + 0.01)^(3/2), which are 1.2453 and 3.9976 to four
\* decimals.
C10_SoftenedMagnitudes ==
    /\ (/\ last.op = "compute_forces"
        /\ last.g = Lit(1, 1)
        /\ TwoBodyTestInput(last.bodies))
       => Abs(bodies[1].ax - Lit(12453, 10000)) <= 10
    /\ (/\ last.op = "compute_rocket_forces"
        /\ last.g = Lit(1, 1)
        /\ RocketTestInput(last.bodies, last.rockets))
       => Abs(Sqrt(Mul(rockets[1].ax, rockets[1].ax)
                   + Mul(rockets[1].ay, rockets[1].ay))
              - Lit(39976, 10000)) <= 10


\* ------------------------------------------------------------------------
\* Specification SpecRun: the program, main.c
\* ------------------------------------------------------------------------

\* The C integer division and remainder (truncation toward zero), b # 0.
CDiv(a, b) == Sgn(a) * Sgn(b) * (Abs(a) \div Abs(b))

CMod(a, b) == a - b * CDiv(a, b)

\* cos and sin of 2 * M_PI * i / 4 (init.c line 25 with count = 5), which
\* differ from 0, 1 and -1 by less than the resolution of the model.
QuarterCos(i) == IF i % 4 = 0 THEN ONE ELSE IF i % 4 = 2 THEN 0 - ONE ELSE 0

QuarterSin(i) == IF i % 4 = 1 THEN ONE ELSE IF i % 4 = 3 THEN 0 - ONE ELSE 0

\* init_bodies_default, lines 24-38: planet i of the default system.
DefaultPlanet(i) ==
    LET radius == Lit(2, 1) + i * Lit(1, 2)
        v      == Sqrt(Div(Mul(G, Lit(100, 1)), radius))
    IN  [x |-> Mul(radius, QuarterCos(i)), y |-> Mul(radius, QuarterSin(i)),
         vx |-> Mul(0 - v, QuarterSin(i)), vy |-> Mul(v, QuarterCos(i)),
         ax |-> 0, ay |-> 0, mass |-> Lit(1, 1)]

\* init_bodies_default: a star of mass 100 and four planets.
init_bodies_default ==
    <<NewBody(0, 0, 0, 0, Lit(100, 1))>> \o [i \in 1..4 |-> DefaultPlanet(i)]

\* init_rockets_default: one rocket at the perihelion of an ellipse with
\* semi-major axis 5.0 and eccentricity 0.6, its trail of capacity STEPS
\* holding the start position.
init_rockets_default ==
    LET semi_major   == Lit(5, 1)
        eccentricity == Lit(6, 10)
        r            == Mul(semi_major, ONE - eccentricity)
        v_perihelion == Sqrt(Div(Mul(Mul(G, Lit(100, 1)), ONE + eccentricity),
                                 Mul(semi_major, ONE - eccentricity)))
    IN  <<NewRocket(r, 0, 0, v_perihelion, STEPS, 1)>>

\* The contents of config.txt: the keys it sets, with their values.
ConfigFiles ==
    {[steps |-> STEPS + 2],
     [steps |-> 2, frames |-> 1, save_interval |-> 0],
     [save_interval |-> 1],
     [frames |-> 0],
     [steps |-> 1, frames |-> 2, save_interval |-> 0],
     [steps |-> 4, frames |-> 2, save_interval |-> 0],
     [frames |-> 0 - 1, save_interval |-> 0]}

\* load_config, lines 113-119: the keys of the file override the fields.
load_config(f, c) ==
    [k \in DOMAIN c |-> IF k \in DOMAIN f THEN f[k] ELSE c[k]]

\* The contents of bodies.txt: lines "x y vx vy mass".
BodyFiles ==
    {<<<<0, 0, 0, 0, Lit(100, 1)>>>>,
     <<<<0, 0, 0, 0, Lit(100, 1)>>,
       <<Lit(3, 1), 0, 0, Lit(5, 1), Lit(1, 1)>>>>}

\* load_bodies, lines 23-40.
load_bodies(f) ==
    [k \in 1..Min(Len(f), MAX_BODIES) |->
        NewBody(f[k][1], f[k][2], f[k][3], f[k][4], f[k][5])]

\* The contents of rockets.txt: lines "x y vx vy".  A rocket on a circular
\* orbit of radius 5; that rocket and one leaving the area in the first
\* step; no line at all.
RocketFiles ==
    {<<<<Lit(5, 1), 0, 0, Lit(44721, 10000)>>>>,
     <<<<Lit(5, 1), 0, 0, Lit(44721, 10000)>>,
       <<Lit(99, 2), 0, Lit(100, 1), 0>>>>,
     <<>>}

\* load_rockets, lines 62-88.
load_rockets(f) ==
    [k \in 1..Min(Len(f), MAX_ROCKETS) |->
        LoadedRocket(f[k][1], f[k][2], f[k][3], f[k][4])]

\* LoadOrFail returning 0 for a file that cannot be opened.
LoadOrFailZero(ok, count, loaded, out) ==
    IF ~ok THEN [ret |-> 0, out |-> out] ELSE [ret |-> count, out |-> loaded]

\* The call of a loader: ok tells whether fopen opens the file, count and
\* loaded are what the loader returns and leaves in its output argument
\* when it does, out is the output argument before the call.  When fopen
\* fails the loader prints a warning and returns -1 at once (file_io.c
\* lines 12-16, 51-55, 99-103).
LoadOrFail(ok, count, loaded, out) ==
    IF ~ok THEN [ret |-> 0 - 1, out |-> out]
    ELSE [ret |-> count, out |-> loaded]

\* load_bodies("bodies.txt", bodies, MAX_BODIES)
LoadBodiesCall(f, ok, bs) ==
    LoadOrFail(ok, Len(load_bodies(f)), load_bodies(f), bs)

\* load_rockets("rockets.txt", rockets, MAX_ROCKETS)
LoadRocketsCall(f, ok, rs) ==
    LoadOrFail(ok, Len(load_rockets(f)), load_rockets(f), rs)

\* load_config("config.txt", &config), which returns 0 (line 127).
LoadConfigCall(f, ok, c) == LoadOrFail(ok, 0, load_config(f, c), c)

\* ReturnsToCaller for a writer that ends the program when it cannot open
\* its file.
ExitsOnFailure(ok) == ok

\* Whether a writer (write_bmp, save_rocket_data, save_rocket_trails_bin,
\* save_trajectory_stats, save_metadata) comes back to main, ok telling
\* whether its fopen succeeded: on failure it prints a message and returns
\* (bmp_io.c lines 17-20, file_io.c lines 134-137); otherwise it runs to
\* its end.
ReturnsToCaller(ok) == TRUE

\* LoopOrder with the two updates swapped.
LoopOrderRocketsFirst == <<"update_rockets", "update_bodies", "frame">>

\* The body of the simulation loop, main.c lines 86-112, in order.
LoopOrder == <<"update_bodies", "update_rockets", "frame">>

\* The position after phase k of the loop body.
AfterPhase(k) == IF k < Len(LoopOrder) THEN LoopOrder[k + 1] ELSE "loop"

PhaseOf(name) == CHOOSE k \in 1..Len(LoopOrder) : LoopOrder[k] = name

RunInit ==
    /\ bodies = <<>>
    /\ n_bodies = 0
    /\ rockets = <<>>
    /\ n_rockets = 0
    /\ img = <<>>
    /\ config = DefaultConfig
    /\ pc = "load_config"
    /\ step = 0
    /\ frame_interval = 0
    /\ frames = <<>>
    /\ writable \in BOOLEAN
    /\ last = NoCall
    /\ calls = 0
    /\ p0 = <<0, 0>>
    /\ file = <<>>
    /\ readback = <<>>
    /\ line = <<>>

\* main.c lines 19-20: config.txt is read, or is missing, and the config
\* stays as line 19 set it.
RunLoadConfig ==
    /\ pc = "load_config"
    /\ \E ok \in BOOLEAN, f \in ConfigFiles :
          LET res == LoadConfigCall(f, ok, config)
          IN  /\ config' = res.out
              /\ last' = [Call("load_config", 0, 0, {}) EXCEPT
                             !.ok = ok, !.ret = res.ret]
    /\ pc' = "load_bodies"
    /\ UNCHANGED outvars
    /\ UNCHANGED <<bodies, n_bodies, rockets, n_rockets, img, step,
                   frame_interval, frames, writable, calls>>

\* main.c lines 42-45: bodies.txt is read, or is missing, and the defaults
\* are used.
RunLoadBodies ==
    /\ pc = "load_bodies"
    /\ \E ok \in BOOLEAN, f \in BodyFiles :
          LET res == LoadBodiesCall(f, ok, bodies)
          IN  /\ bodies' = IF res.ret < 0 THEN init_bodies_default
                           ELSE res.out
              /\ n_bodies' = IF res.ret < 0 THEN Len(init_bodies_default)
                             ELSE res.ret
              /\ last' = [Call("load_bodies", 0, 0, {}) EXCEPT
                             !.ok = ok, !.ret = res.ret]
    /\ pc' = "load_rockets"
    /\ UNCHANGED outvars
    /\ UNCHANGED <<rockets, n_rockets, img, config, step, frame_interval,
                   frames, writable, calls>>

\* main.c lines 48-51: rockets.txt is read, or is missing, and the default
\* is used.
RunLoadRockets ==
    /\ pc = "load_rockets"
    /\ \E ok \in BOOLEAN, f \in RocketFiles :
          LET res == LoadRocketsCall(f, ok, rockets)
          IN  /\ rockets' = IF res.ret < 0 THEN init_rockets_default
                            ELSE res.out
              /\ n_rockets' = IF res.ret < 0 THEN Len(init_rockets_default)
                              ELSE res.ret
              /\ last' = [Call("load_rockets", 0, 0, {}) EXCEPT
                             !.ok = ok, !.ret = res.ret]
    /\ pc' = "setup"
    /\ UNCHANGED outvars
    /\ UNCHANGED <<bodies, n_bodies, img, config, step, frame_interval,
                   frames, writable, calls>>

\* FrameInterval without lines 55-57: save_interval is not looked at.
FrameIntervalFromFrames(c) == CDiv(c.steps, c.frames)

\* main.c lines 54-57: the number of steps from one frame to the next, for
\* c.frames # 0.
FrameInterval(c) ==
    IF c.save_interval > 0 THEN c.save_interval ELSE CDiv(c.steps, c.frames)

\* main.c lines 54-57.  A division by zero ends the program.
RunSetup ==
    /\ pc = "setup"
    /\ IF config.frames = 0
       THEN pc' = "crashed" /\ UNCHANGED frame_interval
       ELSE /\ frame_interval' = FrameInterval(config)
            /\ pc' = "loop"
    /\ UNCHANGED outvars
    /\ UNCHANGED <<bodies, n_bodies, rockets, n_rockets, img, config, step,
                   frames, writable, last, calls>>

\* main.c line 84: the loop test.
RunLoopTest ==
    /\ pc = "loop"
    /\ pc' = IF step < config.steps THEN LoopOrder[1] ELSE "save"
    /\ UNCHANGED outvars
    /\ UNCHANGED <<bodies, n_bodies, rockets, n_rockets, img, config, step,
                   frame_interval, frames, writable, last, calls>>

\* main.c line 86.
RunUpdateBodies ==
    /\ pc = "update_bodies"
    /\ bodies' = update_bodies(bodies, n_bodies, config.dt, config.g)
    /\ last' = Call("update_bodies", config.dt, config.g, {})
    /\ calls' = calls + 1
    /\ pc' = AfterPhase(PhaseOf("update_bodies"))
    /\ UNCHANGED outvars
    /\ UNCHANGED <<n_bodies, rockets, n_rockets, img, config, step,
                   frame_interval, frames, writable>>

\* main.c line 87.
RunUpdateRockets ==
    /\ pc = "update_rockets"
    /\ rockets' = update_rockets(rockets, n_rockets, bodies, n_bodies,
                                 config.dt, config.g)
    /\ last' = Call("update_rockets", config.dt, config.g,
                    TrailWrites(rockets, n_rockets))
    /\ calls' = calls + 1
    /\ pc' = AfterPhase(PhaseOf("update_rockets"))
    /\ UNCHANGED outvars
    /\ UNCHANGED <<bodies, n_bodies, n_rockets, img, config, step,
                   frame_interval, frames, writable>>

\* main.c lines 90-112 and the step++ of line 84: every frame_interval
\* steps the state is rendered and write_bmp writes the frame, unless it
\* cannot open the file.  A remainder by zero ends the program.
RunFrame ==
    /\ pc = "frame"
    /\ IF frame_interval = 0
       THEN /\ pc' = "crashed"
            /\ UNCHANGED <<img, frames, last, step>>
       ELSE /\ IF CMod(step, frame_interval) = 0
               THEN /\ img' = render(bodies, n_bodies, rockets, n_rockets,
                                     img, Lit(50, 1))
                    /\ frames' = Append(frames,
                                   [num |-> CDiv(step, frame_interval),
                                    step |-> step, written |-> writable])
                    /\ last' = RenderCall(Lit(50, 1))
               ELSE UNCHANGED <<img, frames, last>>
            /\ IF CMod(step, frame_interval) = 0
                  /\ ~ReturnsToCaller(writable)
               THEN pc' = "crashed" /\ UNCHANGED step
               ELSE /\ step' = step + 1
                    /\ pc' = AfterPhase(PhaseOf("frame"))
    /\ UNCHANGED outvars
    /\ UNCHANGED <<bodies, n_bodies, rockets, n_rockets, config,
                   frame_interval, writable, calls>>

\* main.c lines 116-149: the output files are saved, unless they cannot be
\* opened, and the program ends.
RunSave ==
    /\ pc = "save"
    /\ pc' = IF ReturnsToCaller(writable) THEN "done" ELSE "crashed"
    /\ UNCHANGED outvars
    /\ UNCHANGED <<bodies, n_bodies, rockets, n_rockets, img, config, step,
                   frame_interval, frames, writable, last, calls>>

RunNext ==
    \/ RunLoadConfig
    \/ RunLoadBodies
    \/ RunLoadRockets
    \/ RunSetup
    \/ RunLoopTest
    \/ RunUpdateBodies
    \/ RunUpdateRockets
    \/ RunFrame
    \/ RunSave

SpecRun == RunInit /\ [][RunNext]_vars


\* ------------------------------------------------------------------------
\* Properties of the run (SpecRun)
\* ------------------------------------------------------------------------

\* C6 as claimed: the trail created for a rocket holds the initial sample
\* and one sample per step of the run: when the run is over, a rocket that
\* is still active has trail_length = config.steps + 1.
C6_TrailHoldsEveryStep ==
    pc = "done" =>
        \A i \in Rockets :
            rockets[i].active = 1 =>
                rockets[i].trail_length = config.steps + 1

\* What the program does: the trail of a rocket that is active to the end
\* holds config.steps + 1 samples only if that is at most STEPS, the
\* capacity it was created with, and STEPS samples otherwise; with the
\* default configuration the sample of the last step is dropped.
C6_TrailCutAtCapacity ==
    pc = "done" =>
        \A i \in Rockets :
            rockets[i].active = 1 =>
                rockets[i].trail_length = Min(config.steps + 1, STEPS)

\* C6 evidence: a run with the default number of steps has ended with an
\* active rocket whose last position is not in its trail.
C6_DroppedSample ==
    /\ pc = "done"
    /\ config.steps = STEPS
    /\ \E i \in Rockets :
          /\ rockets[i].active = 1
          /\ rockets[i].trail_length = STEPS
          /\ rockets[i].trail_x[STEPS] # rockets[i].x

\* C8: in each step of the run loop update_bodies runs before
\* update_rockets: the accelerations update_bodies leaves are those
\* compute_forces gives for the pre-step state of all bodies, and
\* update_rockets is called in the same step on the bodies update_bodies
\* has advanced, so that the acceleration of every active rocket is the
\* pull of the advanced bodies.
C8_BodiesBeforeRockets ==
    [][/\ pc = "update_bodies" =>
             LET acc == compute_forces(bodies, n_bodies, config.g)
             IN  \A i \in Bodies :
                    /\ bodies'[i].ax = acc[i].ax
                    /\ bodies'[i].ay = acc[i].ay
       /\ pc = "update_rockets" =>
             /\ last.op = "update_bodies"
             /\ last.step = step
             /\ bodies = update_bodies(last.bodies, n_bodies, config.dt,
                                       config.g)
             /\ \A i \in Rockets :
                   rockets[i].active = 1 =>
                      LET r == BodyLoop([rockets[i] EXCEPT !.ax = 0, !.ay = 0],
                                        bodies, 1, n_bodies, config.g)
                      IN  /\ rockets'[i].ax = r.ax
                          /\ rockets'[i].ay = r.ay]_vars

\* C8 witness: update_rockets has given a rocket the pull of the advanced
\* bodies, which is not the pull of the bodies as they were before the
\* step.
C8_Witness ==
    /\ pc = "frame"
    /\ last.op = "update_rockets"
    /\ Len(last.prev_bodies) = n_bodies
    /\ \E i \in Rockets :
          /\ last.rockets[i].active = 1
          /\ LET new == BodyLoop([last.rockets[i] EXCEPT !.ax = 0, !.ay = 0],
                                 last.bodies, 1, n_bodies, last.g)
                 old == BodyLoop([last.rockets[i] EXCEPT !.ax = 0, !.ay = 0],
                                 last.prev_bodies, 1, n_bodies, last.g)
             IN  /\ rockets[i].ax = new.ax /\ rockets[i].ay = new.ay
                 /\ (new.ax # old.ax \/ new.ay # old.ay)


\* ------------------------------------------------------------------------
\* Specification SpecMomentum: test_momentum_conservation, an isolated
\* system of bodies advanced by update_bodies calls
\* ------------------------------------------------------------------------

\* The number of update_bodies calls a behaviour makes (500 in the test).
MomentumCalls == 3

\* The isolated systems: the three bodies of test_momentum_conservation
\* (zero net momentum); two bodies of unequal, fractional masses with a net
\* momentum; a star and a planet; three bodies of unequal masses.
MomentumSystems ==
    {<<NewBody(0, 0, Lit(1, 1), 0, Lit(10, 1)),
       NewBody(Lit(2, 1), 0, 0 - Lit(1, 2), Lit(1, 2), Lit(10, 1)),
       NewBody(Lit(1, 1), Lit(2, 1), 0 - Lit(1, 2), 0 - Lit(1, 2),
               Lit(10, 1))>>,
     <<NewBody(0, 0, Lit(3, 10), 0, Lit(5, 2)),
       NewBody(Lit(17, 10), Lit(7, 100), 0, Lit(11, 10), Lit(3, 10))>>,
     <<NewBody(0, 0, 0, 0, Lit(100, 1)),
       NewBody(Lit(3, 1), 0, 0, Lit(5, 1), Lit(1, 1))>>,
     <<NewBody(0, 0, 0, Lit(1, 10), Lit(20, 1)),
       NewBody(Lit(1, 1), Lit(1, 1), Lit(1, 1), 0, Lit(7, 2)),
       NewBody(0 - Lit(3, 2), Lit(1, 2), 0, 0 - Lit(2, 1), Lit(1, 1))>>}

\* The (dt, g) arguments of the calls; the test calls with (0.01, 1.0).
MomentumParams ==
    {[dt |-> Lit(1, 100), g |-> Lit(1, 1)],
     [dt |-> Lit(2, 100), g |-> Lit(1, 1)],
     [dt |-> Lit(1, 100), g |-> Lit(5, 2)]}

\* test_momentum_conservation, lines 122-126 and 134-138: the sum over
\* bodies k..n of mass * vx and of mass * vy, added to acc in index order.
RECURSIVE MomentumFrom(_, _, _, _)
MomentumFrom(bs, k, n, acc) ==
    IF k > n THEN acc
    ELSE MomentumFrom(bs, k + 1, n,
                      <<acc[1] + Mul(bs[k].mass, bs[k].vx),
                        acc[2] + Mul(bs[k].mass, bs[k].vy)>>)

Momentum(bs, n) == MomentumFrom(bs, 1, n, <<0, 0>>)

\* The bodies are set up and the initial momentum is measured.
MomentumInit ==
    /\ bodies \in MomentumSystems
    /\ n_bodies = Len(bodies)
    /\ rockets = <<>>
    /\ n_rockets = 0
    /\ img = <<>>
    /\ config = DefaultConfig
    /\ pc = "momentum"
    /\ step = 0
    /\ frame_interval = 0
    /\ frames = <<>>
    /\ writable = TRUE
    /\ last = NoCall
    /\ calls = 0
    /\ p0 = Momentum(bodies, n_bodies)
    /\ file = <<>>
    /\ readback = <<>>
    /\ line = <<>>

\* test_momentum_conservation, lines 129-131: one pass of the loop.
MomentumStep ==
    /\ calls < MomentumCalls
    /\ \E p \in MomentumParams :
          /\ bodies' = update_bodies(bodies, n_bodies, p.dt, p.g)
          /\ last' = Call("update_bodies", p.dt, p.g, {})
    /\ calls' = calls + 1
    /\ UNCHANGED outvars
    /\ UNCHANGED <<n_bodies, rockets, n_rockets, img, runvars>>

MomentumNext == MomentumStep

SpecMomentum == MomentumInit /\ [][MomentumNext]_vars

\* ------------------------------------------------------------------------
\* Properties of the integrator on an isolated system (SpecMomentum)
\* ------------------------------------------------------------------------

\* The sum of the masses of bodies 1..n.
TotalMass(bs, n) ==
    LET RECURSIVE sum(_)
        sum(k) == IF k > n THEN 0 ELSE bs[k].mass + sum(k + 1)
    IN  sum(1)

\* The deviation of the total momentum from the momentum measured at the
\* start, <<x, y>> components.
MomentumDrift ==
    <<Abs(Momentum(bodies, n_bodies)[1] - p0[1]),
      Abs(Momentum(bodies, n_bodies)[2] - p0[2])>>

\* The rounding error the calls made so far can have left in the total
\* momentum.  Each pair adds fx * m_j to body i and subtracts fx * m_i from
\* body j for one and the same fx, so the mass-weighted accelerations cancel
\* but for the rounding of these products, and a * dt is rounded once per
\* body and call: at most one unit in the last place per unit of mass and
\* call, and one per body for the two measurements.
MomentumRounding == calls * (TotalMass(bodies, n_bodies) \div ONE + 1) + n_bodies

C11_ExactlyConserved == MomentumDrift = <<0, 0>>


\* ------------------------------------------------------------------------
\* Specification SpecScene: a scene of bodies and rockets, advanced by
\* update_rockets and rendered at several scales on buffers that held
\* something else before
\* ------------------------------------------------------------------------

\* The number of calls a behaviour makes.
SceneCalls == 3

\* The scale arguments of render: 50.0 (main.c line 53), and 5.0, at which
\* the whole simulation area of radius 50 lies in the picture.
SceneScales == {Lit(50, 1), Lit(5, 1)}

\* The bodies of a scene: a star in the middle of the picture with a planet;
\* a star whose disc is cut by two edges of the picture, a planet outside
\* the picture and a planet inside it.
SceneBodies ==
    {<<NewBody(0, 0, 0, 0, Lit(100, 1)),
       NewBody(Lit(3, 1), 0, 0, Lit(5, 1), Lit(1, 1))>>,
     <<NewBody(0 - Lit(795, 100), Lit(79, 10), 0, 0, Lit(100, 1)),
       NewBody(Lit(9, 1), 0, 0, 0, Lit(1, 1)),
       NewBody(Lit(1013, 1000), 0 - Lit(2507, 1000), 0, 0, Lit(1, 1))>>}

\* The rockets of a scene, as load_rockets creates them.  A rocket that
\* leaves the area in its first step, with a rocket in orbit whose
\* projections have a fractional part; a rocket left of the picture by
\* half a pixel, with a rocket at the right edge that leaves the picture;
\* a rocket created without a trail sample, as a test may create it, with
\* a rocket at rest half a pixel right of the picture.
SceneRockets ==
    {<<LoadedRocket(Lit(99, 2), 0, Lit(100, 1), 0),
       LoadedRocket(Lit(3, 1), 0, 0, Lit(5, 1))>>,
     <<LoadedRocket(0 - Lit(801, 100), 0 - Lit(301, 100), 0, 0),
       LoadedRocket(Lit(795, 100), 0, Lit(100, 1), 0)>>,
     <<NewRocket(Lit(1, 1), Lit(1, 1), 0, Lit(1, 1), STEPS, 0),
       LoadedRocket(Lit(801, 100), 0, 0, 0)>>}

\* What the buffer holds before the first render call: nothing defined
\* (malloc, main.c line 11), or the picture of something else.
PriorBuffers ==
    {<<>>,
     <<CircleOp(400, 400, 8, 1, 2, 3), LineOp(0, 0, 60, 60, 4, 5, 6)>>}

SceneInit ==
    /\ bodies \in SceneBodies
    /\ n_bodies = Len(bodies)
    /\ rockets \in SceneRockets
    /\ n_rockets = Len(rockets)
    /\ img \in PriorBuffers
    /\ config = DefaultConfig
    /\ pc = "scene"
    /\ step = 0
    /\ frame_interval = 0
    /\ frames = <<>>
    /\ writable = TRUE
    /\ last = NoCall
    /\ calls = 0
    /\ p0 = <<0, 0>>
    /\ file = <<>>
    /\ readback = <<>>
    /\ line = <<>>

\* update_rockets(rockets, n_rockets, bodies, n_bodies, config.dt, config.g)
SceneUpdateRockets ==
    /\ calls < SceneCalls
    /\ rockets' = update_rockets(rockets, n_rockets, bodies, n_bodies,
                                 config.dt, config.g)
    /\ last' = Call("update_rockets", config.dt, config.g,
                    TrailWrites(rockets, n_rockets))
    /\ calls' = calls + 1
    /\ UNCHANGED outvars
    /\ UNCHANGED <<bodies, n_bodies, n_rockets, img, runvars>>

\* render(bodies, n_bodies, rockets, n_rockets, img, scale)
SceneRender ==
    /\ calls < SceneCalls
    /\ \E scale \in SceneScales :
          /\ img' = render(bodies, n_bodies, rockets, n_rockets, img, scale)
          /\ last' = RenderCall(scale)
    /\ calls' = calls + 1
    /\ UNCHANGED outvars
    /\ UNCHANGED <<bodies, n_bodies, rockets, n_rockets, runvars>>

SceneNext == SceneUpdateRockets \/ SceneRender

SpecScene == SceneInit /\ [][SceneNext]_vars

\* ------------------------------------------------------------------------
\* Properties of update_rockets and render on a scene (SpecScene)
\* ------------------------------------------------------------------------

\* The rockets a second run has in place of the other rocket: each start of
\* RocketStarts (one in orbit, one that is deactivated in the step, two that
\* reach distance 50.0), and a rocket that is already inactive.
OtherRockets ==
    {LoadedRocket(s[1], s[2], s[3], s[4]) : s \in RocketStarts}
    \cup {[LoadedRocket(Lit(60, 1), 0, 0, 0) EXCEPT !.active = 0]}

\* C13: rockets do not affect each other: the state update_rockets leaves
\* rocket i in is the state it leaves it in when called on rocket i alone,
\* and the state it leaves it in when the other rocket is replaced by any
\* other rocket, with the same bodies, dt and g.
C13_RocketsIndependent ==
    last.op = "update_rockets" =>
        \A i \in Rockets :
            /\ rockets[i]
                  = update_rockets(<<last.rockets[i]>>, 1, last.bodies,
                                   n_bodies, last.dt, last.g)[1]
            /\ \A other \in OtherRockets :
                  \A k \in Rockets \ {i} :
                     rockets[i]
                        = update_rockets([last.rockets EXCEPT ![k] = other],
                                         n_rockets, last.bodies, n_bodies,
                                         last.dt, last.g)[i]

\* C13 witness: update_rockets has advanced the second rocket while the
\* first was inactive, after an earlier call that deactivated the first
\* and advanced the second.
C13_Witness ==
    /\ last.op = "update_rockets"
    /\ last.g # 0
    /\ n_rockets = 2
    /\ last.rockets[1].active = 0
    /\ last.rockets[2].active = 1
    /\ last.rockets[2].trail_length = 2
    /\ rockets[2].active = 1
    /\ rockets[2].x # last.rockets[2].x
    /\ rockets[2].vx # last.rockets[2].vx

\* The coordinates of the pixels looked at: the edges of the picture, the
\* grid lines and their neighbours, and the places of the scenes.
SampleCoordinates ==
    {0, 1, 2, 3, 10, 49, 50, 51, 60, 100, 149, 249, 250, 399, 400, 401, 402,
     403, 408, 409, 450, 549, 550, 551, 554, 652, 750, 797, 798, 799}

SamplePixels == SampleCoordinates \X SampleCoordinates

\* The pixels some draw_line or draw_circle call of the buffer has written.
ShapePixels(buf) == UNION {ShapeWrites(buf[k]) : k \in DOMAIN buf}

\* The colour the clear and the grid leave in pixel q.
Background(q) ==
    IF q[1] % 50 = 0 \/ q[2] % 50 = 0 THEN <<20, 20, 20>> ELSE <<0, 0, 0>>

\* C14: render is stateless with respect to the buffer: whatever the
\* buffer held before the call, afterwards every pixel that no trail
\* segment and no circle of this call covers is (20, 20, 20) if its column
\* or its row is a multiple of 50 and (0, 0, 0) otherwise, and the buffer
\* is the one a render call with the same bodies, rockets and scale leaves
\* when started on any other buffer.
C14_RenderStateless ==
    last.op = "render" =>
        /\ \A layers \in {Layers(img)} :
              \A drawn \in {ShapePixels(render(last.bodies, n_bodies,
                                               last.rockets, n_rockets,
                                               <<>>, last.scale))} :
                 \A q \in SamplePixels \ drawn :
                    PixelAt(img, layers, q[1], q[2]) = Background(q)
        /\ \A prior \in PriorBuffers \cup {<<>>, img} :
              img = render(last.bodies, n_bodies, last.rockets, n_rockets,
                           prior, last.scale)

\* C14 witness: render was called on a buffer that held the picture of an
\* earlier render call at another scale, which had drawn on pixels that
\* this call draws nothing on; these pixels now show the background.
C14_Witness ==
    /\ last.op = "render"
    /\ Len(last.buffer) > 2
    /\ last.buffer # img
    /\ \E before \in {Layers(last.buffer)}, after \in {Layers(img)} :
          \E q \in SamplePixels :
             /\ q \in ShapePixels(last.buffer)
             /\ q \notin ShapePixels(img)
             /\ PixelAt(img, after, q[1], q[2]) = Background(q)
             /\ PixelAt(last.buffer, before, q[1], q[2]) # Background(q)

\* round(v): the integer nearest to v, halves away from zero.
Round(v) == Sgn(v) * ((Abs(v) + ONE \div 2) \div ONE)

\* The world coordinates render projects: the trail samples and the
\* position of every rocket, and the position of every body, as pairs
\* <<coordinate, half the extent of the picture along its axis>>.
Projected ==
    UNION {{<<rockets[i].trail_x[t], WIDTH \div 2>>,
            <<rockets[i].trail_y[t], HEIGHT \div 2>>} :
              <<i, t>> \in {c \in Rockets \X (1..STEPS) :
                               c[2] <= rockets[c[1]].trail_length}}
    \cup UNION {{<<rockets[i].x, WIDTH \div 2>>,
                 <<rockets[i].y, HEIGHT \div 2>>} : i \in Rockets}
    \cup UNION {{<<bodies[i].x, WIDTH \div 2>>,
                 <<bodies[i].y, HEIGHT \div 2>>} : i \in Bodies}

\* C15 as claimed: the pixel coordinate render gives a world coordinate w
\* is round(w * scale + WIDTH / 2), and round(w * scale + HEIGHT / 2) for
\* the rows, for trail samples, rocket positions and body positions.
C15_ProjectsByRounding ==
    last.op = "render" =>
        \A c \in Projected :
            /\ c[2] = WIDTH \div 2 =>
                  ProjectX(c[1], last.scale)
                     = Round(Mul(c[1], last.scale) + c[2] * ONE)
            /\ c[2] = HEIGHT \div 2 =>
                  ProjectY(c[1], last.scale)
                     = Round(Mul(c[1], last.scale) + c[2] * ONE)

\* What render does: the conversion (int) cuts the fractional part off, so
\* that the pixel coordinate is the integer next to w * scale + WIDTH / 2
\* in the direction of zero.
C15_ProjectsByTruncation ==
    last.op = "render" =>
        \A c \in Projected :
            LET v  == Mul(c[1], last.scale) + c[2] * ONE
                px == ProjectX(c[1], last.scale)
            IN  /\ Abs(px * ONE) <= Abs(v)
                /\ Abs(v) - Abs(px * ONE) < ONE
                /\ Sgn(px) * Sgn(v) >= 0

\* C15 evidence: render has drawn the marker of a rocket that stands half a
\* pixel left of the picture into column 0, where rounding puts it at
\* column -1, outside the picture.
C15_MarkerInColumnZero ==
    /\ last.op = "render"
    /\ \E i \in Rockets :
          /\ Round(Mul(rockets[i].x, last.scale) + (WIDTH \div 2) * ONE) < 0
          /\ \E k \in DOMAIN img :
                /\ img[k].kind = "circle"
                /\ img[k].at[1] = 0
                /\ img[k].at[1] = ProjectX(rockets[i].x, last.scale)
                /\ img[k].at[2] = ProjectY(rockets[i].y, last.scale)

\* The flat index of pixel (x, y) in the buffer: img[y * WIDTH + x].
FlatIndex(x, y) == y * WIDTH + x

\* The columns the first grid loop and the rows the second one steps
\* through: 0, 50, ... below the limit (render.c lines 78 and 85).
GridSteps(limit) == {i \in 0..(limit - 1) : i % 50 = 0}

\* C16: render, draw_line and draw_circle never write outside the buffer:
\* every pixel a draw_line or draw_circle call of render writes, and every
\* pixel the grid loops write, has 0 <= x < WIDTH and 0 <= y < HEIGHT, hence
\* an index within the WIDTH * HEIGHT pixels of the buffer; the points of a
\* shape that lie outside are not written.
C16_WritesInBuffer ==
    /\ last.op = "render" =>
          \A k \in DOMAIN img :
             \A q \in ShapeWrites(img[k]) :
                /\ 0 <= q[1] /\ q[1] < WIDTH
                /\ 0 <= q[2] /\ q[2] < HEIGHT
                /\ 0 <= FlatIndex(q[1], q[2])
                /\ FlatIndex(q[1], q[2]) < WIDTH * HEIGHT
    /\ \A i \in GridSteps(WIDTH) :
          OnGrid(i, 0) /\ OnGrid(i, HEIGHT - 1) /\ ~OnGrid(i + WIDTH, 1)
          /\ FlatIndex(i, HEIGHT - 1) < WIDTH * HEIGHT
    /\ \A j \in GridSteps(HEIGHT) :
          OnGrid(0, j) /\ OnGrid(WIDTH - 1, j) /\ ~OnGrid(1, j + HEIGHT)
          /\ FlatIndex(WIDTH - 1, j) < WIDTH * HEIGHT

\* C16 witness: render has drawn a trail segment that crosses the right
\* edge of the picture, of which only the part inside was written, a trail
\* segment that lies outside altogether, of which nothing was written, and
\* a disc that two edges cut.
C16_Witness ==
    /\ last.op = "render"
    /\ \E k \in DOMAIN img :
          /\ img[k].kind = "line"
          /\ ShapeWrites(img[k]) # {}
          /\ \E q \in LinePoints(img[k].at[1], img[k].at[2],
                                 img[k].at[3], img[k].at[4]) : q[1] >= WIDTH
    /\ \E k \in DOMAIN img :
          /\ img[k].kind = "line"
          /\ ShapeWrites(img[k]) = {}
    /\ \E k \in DOMAIN img :
          /\ img[k].kind = "circle"
          /\ \E q \in CirclePoints(img[k].at[1], img[k].at[2], img[k].at[3]) :
                q[1] < 0
          /\ \E q \in CirclePoints(img[k].at[1], img[k].at[2], img[k].at[3]) :
                q[2] >= HEIGHT

\* The draw_circle call that draws the marker of rocket r at the scale.
MarkerOf(r, scale) ==
    CircleOp(ProjectX(r.x, scale), ProjectY(r.y, scale), 4, 255, 50, 50)

\* The part of the marker's disc that lies in the picture.
MarkerInside(r, scale) ==
    Clip(CirclePoints(ProjectX(r.x, scale), ProjectY(r.y, scale), 4))

\* The buffer holds the operation op.
Painted(buf, op) == \E k \in DOMAIN buf : buf[k] = op

\* C17 as claimed: for every rocket with trail_length > 0, active or not,
\* render draws the part inside the picture of a filled circle of radius 4
\* in colour (255, 50, 50) at the rocket's projected position.
C17_MarkerAlwaysDrawn ==
    last.op = "render" =>
        \A i \in Rockets :
            rockets[i].trail_length > 0 =>
                \A q \in MarkerInside(rockets[i], last.scale) :
                    \E k \in DOMAIN img :
                        /\ img[k] = MarkerOf(rockets[i], last.scale)
                        /\ q \in ShapeWrites(img[k])

\* C17 as amended: render draws the marker of a rocket, active or not, if
\* and only if trail_length > 0 and the projected position itself lies in
\* the picture, and then draws the part of the disc that does; a rocket
\* whose projected position lies outside gets no marker.  At scale 50 that
\* is every rocket beyond distance 50.0: no part of its disc is in the
\* picture.
C17_MarkerIffCentreInside ==
    last.op = "render" =>
        \A i \in Rockets :
            LET r  == rockets[i]
                px == ProjectX(r.x, last.scale)
                py == ProjectY(r.y, last.scale)
            IN  /\ Painted(img, MarkerOf(r, last.scale))
                      <=> (r.trail_length > 0 /\ InBuffer(px, py))
                /\ Painted(img, MarkerOf(r, last.scale)) =>
                      /\ <<px, py>> \in ShapeWrites(MarkerOf(r, last.scale))
                      /\ MarkerInside(r, last.scale) # {}
                /\ (last.scale = Lit(50, 1) /\ Radial(r) > Lit(50, 1)) =>
                      /\ ~Painted(img, MarkerOf(r, last.scale))
                      /\ MarkerInside(r, last.scale) = {}

\* C17 witness: render at scale 5 has drawn the marker of a rocket that
\* the r > 50.0 rule had frozen.
C17_Witness ==
    /\ last.op = "render"
    /\ last.scale = Lit(5, 1)
    /\ \E i \in Rockets :
          /\ rockets[i].active = 0
          /\ Radial(rockets[i]) > Lit(50, 1)
          /\ rockets[i].trail_length > 0
          /\ Painted(img, MarkerOf(rockets[i], last.scale))
          /\ Cardinality(MarkerInside(rockets[i], last.scale)) = 49

\* C17 evidence: render at scale 50 has drawn no marker for a rocket at
\* rest whose projected position is half a pixel right of the picture,
\* although part of the disc lies in the picture.
C17_NoMarkerAtTheEdge ==
    /\ last.op = "render"
    /\ last.scale = Lit(50, 1)
    /\ \E i \in Rockets :
          /\ rockets[i].trail_length > 0
          /\ MarkerInside(rockets[i], last.scale) # {}
          /\ ~Painted(img, MarkerOf(rockets[i], last.scale))

\* C17 evidence: render at scale 50, the scale of the run loop, has drawn
\* no marker for a rocket that the r > 50.0 rule had frozen.
C17_FrozenNotInPicture ==
    /\ last.op = "render"
    /\ last.scale = Lit(50, 1)
    /\ \E i \in Rockets :
          /\ rockets[i].active = 0
          /\ rockets[i].trail_length > 0
          /\ ~Painted(img, MarkerOf(rockets[i], last.scale))


\* ------------------------------------------------------------------------
\* bmp_io.c
\* ------------------------------------------------------------------------

\* n & ~3 on a two's complement int: the two low bits cleared.
AndNot3(n) == n - (n % 4)

\* RowSize without the padding.
RowSizeUnpadded(w) == w * 3

\* write_bmp, line 23: int row_size = (w * 3 + 3) & ~3.
RowSize(w) == AndNot3(w * 3 + 3)

\* write_bmp, lines 30-31: (n >> (8 * k)) & 0xFF, the result stored in an
\* unsigned char.
ByteOf(n, k) == (n \div (256 ^ k)) % 256

\* The four bytes of the int n, lowest first (lines 30-31, 35, 36, 40-41).
Int32Bytes(n) == <<ByteOf(n, 0), ByteOf(n, 1), ByteOf(n, 2), ByteOf(n, 3)>>

\* write_bmp, lines 28-46: the 54 bytes of the header ('B' is 66, 'M' 77).
Header(w, h) ==
    LET row_size  == RowSize(w)
        img_size  == row_size * h
        file_size == 54 + img_size
    IN  <<66, 77>> \o Int32Bytes(file_size)
        \o <<0, 0, 0, 0>>
        \o <<54, 0, 0, 0>>
        \o <<40, 0, 0, 0>>
        \o Int32Bytes(w)
        \o Int32Bytes(h)
        \o <<1, 0>>
        \o <<24, 0>>
        \o <<0, 0, 0, 0>>
        \o Int32Bytes(img_size)
        \o <<0, 0, 0, 0>> \o <<0, 0, 0, 0>> \o <<0, 0, 0, 0>> \o <<0, 0, 0, 0>>

\* The pixel img[k] of the buffer: the pixel in column k % WIDTH of row
\* k / WIDTH, as <<r, g, b>>.
PixelFlat(buf, layers, k) == PixelAt(buf, layers, k % WIDTH, k \div WIDTH)

\* write_bmp, lines 56-57: fwrite(p, 3, 1, f) writes the three bytes of the
\* Pixel as they lie in memory, b, g, r (nbody.h lines 61-63).
PixelBytes(rgb) == <<rgb[3], rgb[2], rgb[1]>>

\* write_bmp, lines 55-61: row y of the image, pixels x..w-1 and the
\* padding.
RECURSIVE RowBytes(_, _, _, _, _)
RowBytes(buf, layers, w, y, x) ==
    IF x >= w
    THEN [k \in 1..(RowSize(w) - w * 3) |-> 0]
    ELSE PixelBytes(PixelFlat(buf, layers, y * w + x))
         \o RowBytes(buf, layers, w, y, x + 1)

\* RowsFrom with the rows in the order of the buffer, top row first: row
\* y stands for row h - 1 - y.
RECURSIVE RowsTopDown(_, _, _, _, _)
RowsTopDown(buf, layers, w, h, y) ==
    IF y < 0 THEN <<>>
    ELSE RowBytes(buf, layers, w, h - 1 - y, 0)
         \o RowsTopDown(buf, layers, w, h, y - 1)

\* write_bmp, lines 54-62: the rows y, y - 1, ..., 0 of the image.
RECURSIVE RowsFrom(_, _, _, _, _)
RowsFrom(buf, layers, w, h, y) ==
    IF y < 0 THEN <<>>
    ELSE RowBytes(buf, layers, w, y, 0) \o RowsFrom(buf, layers, w, h, y - 1)

\* write_bmp(filename, img, w, h): the bytes of the file after the call,
\* where f holds its bytes before the call and ok tells whether fopen
\* opens it.  If it does not, the function returns at once (lines 17-20).
write_bmp(f, buf, w, h, ok) ==
    IF ~ok THEN f
    ELSE Header(w, h) \o RowsFrom(buf, Layers(buf), w, h, h - 1)


\* ------------------------------------------------------------------------
\* SpecBmp: write_bmp called with small sizes on buffers whose pixels are
\* known, onto a file that opens or does not
\* ------------------------------------------------------------------------

BmpWidth == 5
BmpHeight == 3

\* A buffer cleared and then painted one pixel at a time (a circle of
\* radius 0 is one pixel): img[k - 1] gets a colour that differs from pixel
\* to pixel and from channel to channel.
TestImage(base) ==
    Clear(<<>>)
    \o [k \in 1..(BmpWidth * BmpHeight) |->
           CircleOp(k - 1, 0, 0, (base + k) % 256, (base + 50 + 2 * k) % 256,
                    (base + 100 + 3 * k) % 256)]

\* The buffers written: two test images and rendered frames.
BmpBuffers ==
    {TestImage(0), TestImage(180)}
    \cup {render(bs, Len(bs), <<>>, 0, <<>>, Lit(50, 1)) : bs \in SceneBodies}

\* What the file holds before the call: nothing, or an older and longer
\* file.
OldFiles == {<<>>, [k \in 1..120 |-> 255]}

BmpInit ==
    /\ bodies = <<>>
    /\ n_bodies = 0
    /\ rockets = <<>>
    /\ n_rockets = 0
    /\ img \in BmpBuffers
    /\ config = DefaultConfig
    /\ pc = "bmp"
    /\ step = 0
    /\ frame_interval = 0
    /\ frames = <<>>
    /\ writable \in BOOLEAN
    /\ last = NoCall
    /\ calls = 0
    /\ p0 = <<0, 0>>
    /\ file \in OldFiles
    /\ readback = <<>>
    /\ line = <<>>

\* write_bmp(filename, img, w, h)
WriteBmp ==
    /\ \E w \in 1..BmpWidth, h \in 1..BmpHeight :
          /\ file' = write_bmp(file, img, w, h, writable)
          /\ last' = [Call("write_bmp", 0, 0, {}) EXCEPT
                         !.buffer = img, !.size = <<w, h>>]
    /\ UNCHANGED <<p0, readback, line>>
    /\ UNCHANGED <<bodies, n_bodies, rockets, n_rockets, img, runvars, calls>>

BmpNext == WriteBmp

SpecBmp == BmpInit /\ [][BmpNext]_vars

\* ------------------------------------------------------------------------
\* Properties of SpecBmp
\* ------------------------------------------------------------------------

\* The number a reader of the file finds in the len bytes at offset pos,
\* lowest byte first.
RECURSIVE ReadLE(_, _, _)
ReadLE(f, pos, len) ==
    IF len = 0 THEN 0 ELSE f[pos + 1] + 256 * ReadLE(f, pos + 1, len - 1)

\* The smallest multiple of 4 that is at least n.
PaddedTo4(n) == CHOOSE m \in n..(n + 3) : m % 4 = 0

WroteBmp == last.op = "write_bmp" /\ writable

\* C18: a write_bmp(w, h) that opens its file leaves exactly
\* 54 + rowStride * h bytes in it, rowStride being 3 * w padded up to the
\* next multiple of 4; the header starts with 'B' 'M', and a reader finds in
\* it the file size 54 + rowStride * h, the data offset 54, the info header
\* size 40, the width w, the height h, 1 plane, 24 bits per pixel,
\* compression 0 and the image size rowStride * h, the remaining 16 bytes
\* being zero.  For the 800 x 800 picture of the program the header gives a
\* file of 1920054 bytes.
C18_BmpSizeAndHeader ==
    /\ WroteBmp =>
          LET w == last.size[1]
              h == last.size[2]
              rowStride == PaddedTo4(3 * w)
          IN  /\ RowSize(w) = rowStride
              /\ Len(file) = 54 + rowStride * h
              /\ file[1] = 66 /\ file[2] = 77
              /\ ReadLE(file, 2, 4) = 54 + rowStride * h
              /\ ReadLE(file, 6, 4) = 0
              /\ ReadLE(file, 10, 4) = 54
              /\ ReadLE(file, 14, 4) = 40
              /\ ReadLE(file, 18, 4) = w
              /\ ReadLE(file, 22, 4) = h
              /\ ReadLE(file, 26, 2) = 1
              /\ ReadLE(file, 28, 2) = 24
              /\ ReadLE(file, 30, 4) = 0
              /\ ReadLE(file, 34, 4) = rowStride * h
              /\ \A k \in 39..54 : file[k] = 0
    /\ \A hd \in {Header(WIDTH, HEIGHT)} :
          /\ Len(hd) = 54
          /\ ReadLE(hd, 2, 4) = 1920054
          /\ ReadLE(hd, 18, 4) = 800 /\ ReadLE(hd, 22, 4) = 800
          /\ ReadLE(hd, 34, 4) = 1920000

\* A file was written whose rows need padding, over an older longer file.
C18_Witness ==
    /\ WroteBmp
    /\ last.size = <<3, 2>>
    /\ Len(file) = 78

\* C19: after the header the rows follow bottom to top, row h - 1 of the
\* buffer first; each pixel is the three bytes blue, green, red of
\* img[y * w + x]; each row is filled up to rowStride with zero bytes.
C19_RowsBottomUpBgr ==
    WroteBmp =>
        \A layers \in {Layers(last.buffer)} :
            LET w == last.size[1]
                h == last.size[2]
                rowStride == PaddedTo4(3 * w)
            IN  \A k \in 0..(h - 1) :
                    /\ \A x \in 0..(w - 1) :
                          \A rgb \in {PixelFlat(last.buffer, layers,
                                                (h - 1 - k) * w + x)} :
                              /\ file[54 + k * rowStride + 3 * x + 1] = rgb[3]
                              /\ file[54 + k * rowStride + 3 * x + 2] = rgb[2]
                              /\ file[54 + k * rowStride + 3 * x + 3] = rgb[1]
                    /\ \A c \in (3 * w + 1)..rowStride :
                          file[54 + k * rowStride + c] = 0

\* A file of several rows with padding was written from a buffer whose
\* first and last written pixels differ in every channel.
C19_Witness ==
    /\ WroteBmp
    /\ last.size = <<2, 3>>
    /\ <<file[55], file[56], file[57]>> = <<115, 60, 5>>
    /\ <<file[71], file[72], file[73]>> = <<103, 52, 1>>
    /\ file[61] = 0 /\ file[62] = 0


\* ------------------------------------------------------------------------
\* Output that cannot be opened (SpecRun)
\* ------------------------------------------------------------------------

\* The steps 0..steps-1 at which the loop makes a frame.
FrameSteps(steps, interval) ==
    {s \in 0..(steps - 1) : CMod(s, interval) = 0}

\* C20: an output that cannot be opened is not fatal.  A writer whose fopen
\* fails leaves the file as it was; the run ends early only by the
\* divisions by zero of a config with frames = 0; with or without
\* writable output the loop runs all config.steps steps and attempts the
\* same frames at the same steps, and then the saves are attempted and the
\* program ends; the step that attempts a frame changes neither the
\* bodies, nor the rockets, nor the config.
C20_OpenFailureNotFatal ==
    /\ [](/\ \A f \in OldFiles, buf \in BmpBuffers :
                write_bmp(f, buf, BmpWidth, BmpHeight, FALSE) = f
          /\ pc = "crashed" => config.frames = 0 \/ frame_interval = 0
          /\ \A k \in DOMAIN frames : frames[k].written = writable
          /\ pc \in {"save", "done"} =>
                /\ step = Max(config.steps, 0)
                /\ config.steps > 0 =>
                      /\ frame_interval # 0
                      /\ {frames[k].step : k \in DOMAIN frames}
                            = FrameSteps(config.steps, frame_interval)
                      /\ Len(frames)
                            = Cardinality(FrameSteps(config.steps,
                                                     frame_interval)))
    /\ [][(pc \in {"frame", "save"}) =>
             (UNCHANGED <<bodies, n_bodies, rockets, n_rockets, config>>)]_vars

\* A run whose output cannot be opened has gone through all its steps,
\* attempted several frames, none written, and ended.
C20_Witness ==
    /\ pc = "done"
    /\ ~writable
    /\ step = config.steps
    /\ Len(frames) >= 2
    /\ \A k \in DOMAIN frames : ~frames[k].written


\* ------------------------------------------------------------------------
\* file_io.c: the trajectory dump, and its reader in tools/plot_trails.c
\* ------------------------------------------------------------------------

\* The sizeof(double) = 8 bytes of a double as fwrite copies them from
\* memory.  The model's numbers are 32-bit integers: the low four bytes in
\* two's complement, lowest first, and four bytes of sign.
DoubleBytes(v) ==
    Int32Bytes(v) \o (IF v < 0 THEN <<255, 255, 255, 255>> ELSE <<0, 0, 0, 0>>)

\* fwrite(cells, sizeof(double), len, f): the bytes of the cells k..len-1.
RECURSIVE DoublesBytes(_, _, _)
DoublesBytes(cells, len, k) ==
    IF k >= len THEN <<>>
    ELSE DoubleBytes(cells[k + 1]) \o DoublesBytes(cells, len, k + 1)

\* RocketBytes with the samples written as pairs x, y.
RECURSIVE PairsBytes(_, _)
PairsBytes(r, k) ==
    IF k >= r.trail_length THEN <<>>
    ELSE DoubleBytes(r.trail_x[k + 1]) \o DoubleBytes(r.trail_y[k + 1])
         \o PairsBytes(r, k + 1)

RocketBytesInterleaved(r) == Int32Bytes(r.trail_length) \o PairsBytes(r, 0)

\* save_rocket_trails_bin, lines 166-168: the trail length, the x values,
\* the y values.
RocketBytes(r) ==
    Int32Bytes(r.trail_length)
    \o DoublesBytes(r.trail_x, r.trail_length, 0)
    \o DoublesBytes(r.trail_y, r.trail_length, 0)

\* save_rocket_trails_bin, lines 165-169: rockets i..n.
RECURSIVE RocketsBytes(_, _, _)
RocketsBytes(rs, i, n) ==
    IF i > n THEN <<>> ELSE RocketBytes(rs[i]) \o RocketsBytes(rs, i + 1, n)

\* save_rocket_trails_bin(filename, rockets, n): the bytes of the file
\* after the call, where f holds its bytes before the call and ok tells
\* whether fopen opens it (lines 157-161).
save_rocket_trails_bin(f, rs, n, ok) ==
    IF ~ok THEN f ELSE Int32Bytes(n) \o RocketsBytes(rs, 1, n)

\* The int in the four bytes at offset pos of f, lowest byte first, in
\* two's complement.
IntAt(f, pos) ==
    f[pos + 1] + 256 * f[pos + 2] + 65536 * f[pos + 3]
    + 16777216 * (IF f[pos + 4] >= 128 THEN f[pos + 4] - 256 ELSE f[pos + 4])

\* The double in the eight bytes at offset pos of f; bytes that are not the
\* image of one of the model's numbers give a value outside their range.
DoubleAt(f, pos) ==
    LET fill == IF f[pos + 4] >= 128 THEN 255 ELSE 0
    IN  IF \A k \in 5..8 : f[pos + k] = fill THEN IntAt(f, pos) ELSE Garbage

\* fread(cells, sizeof(double), len, f) at offset pos, all len items being
\* there.
DoublesAt(f, pos, len) == [k \in 1..len |-> DoubleAt(f, pos + 8 * (k - 1))]

\* plot_trails.c, lines 200-221: rockets i..n-1 are read at offset pos; a
\* short read or a failed allocation ends the loop.
RECURSIVE ReadTrailsFrom(_, _, _, _)
ReadTrailsFrom(f, pos, i, n) ==
    IF i >= n \/ pos + 4 > Len(f) THEN <<>>
    ELSE LET len == IntAt(f, pos) IN
         IF len < 0 \/ pos + 4 + 16 * len > Len(f) THEN <<>>
         ELSE <<[trail_length |-> len,
                 trail_x |-> DoublesAt(f, pos + 4, len),
                 trail_y |-> DoublesAt(f, pos + 4 + 8 * len, len)]>>
              \o ReadTrailsFrom(f, pos + 4 + 16 * len, i + 1, n)

\* plot_trails.c, lines 146-221: the rocket count and the trails read from
\* the file; a file without a count is an error (lines 148-152).
read_trails(f) ==
    IF Len(f) < 4 THEN [n_rockets |-> 0 - 1, trails |-> <<>>]
    ELSE [n_rockets |-> IntAt(f, 0),
          trails |-> ReadTrailsFrom(f, 4, 0, IntAt(f, 0))]


\* ------------------------------------------------------------------------
\* SpecTrails: rockets advanced by update_rockets, their trails saved by
\* save_rocket_trails_bin and read back
\* ------------------------------------------------------------------------

TrailCalls == 2
TestSamples == 3

\* test_file_io_roundtrip, lines 249-266: two rockets with full trails of
\* TestSamples samples (50 in the test).  The test leaves active unset.
TestTrailRockets(active) ==
    [i \in 1..2 |->
        [x |-> (i - 1) * Lit(2, 1), y |-> (i - 1) * Lit(3, 1),
         vx |-> (i - 1) * Lit(5, 10), vy |-> (i - 1) * Lit(7, 10),
         ax |-> 0, ay |-> 0, active |-> active,
         trail_x |-> [j \in 1..TestSamples |->
                         (j - 1) * Lit(1, 10) + (i - 1) * ONE],
         trail_y |-> [j \in 1..TestSamples |->
                         (j - 1) * Lit(2, 10) + (i - 1) * ONE],
         trail_length |-> TestSamples, trail_capacity |-> TestSamples]]

\* The rockets at the start: those of the scenes, none, the rockets of the
\* test, and rockets with room for one and for two samples.
TrailRockets ==
    SceneRockets
    \cup {<<>>, TestTrailRockets(0), TestTrailRockets(1),
          <<NewRocket(Lit(3, 1), 0, 0, Lit(5, 1), 1, 1),
            NewRocket(0, 0 - Lit(3, 1), Lit(5, 1), 0, 2, 1),
            NewRocket(0 - Lit(499, 10), 0, 0 - Lit(100, 1), 0, 2, 1)>>}

TrailsInit ==
    /\ bodies = <<NewBody(0, 0, 0, 0, Lit(100, 1))>>
    /\ n_bodies = 1
    /\ rockets \in TrailRockets
    /\ n_rockets = Len(rockets)
    /\ img = <<>>
    /\ config = DefaultConfig
    /\ pc = "trails"
    /\ step = 0
    /\ frame_interval = 0
    /\ frames = <<>>
    /\ writable \in BOOLEAN
    /\ last = NoCall
    /\ calls = 0
    /\ p0 = <<0, 0>>
    /\ file \in OldFiles
    /\ readback = <<>>
    /\ line = <<>>

\* update_rockets(rockets, n_rockets, bodies, n_bodies, config.dt, config.g)
TrailsUpdateRockets ==
    /\ calls < TrailCalls
    /\ rockets' = update_rockets(rockets, n_rockets, bodies, n_bodies,
                                 config.dt, config.g)
    /\ last' = Call("update_rockets", config.dt, config.g,
                    TrailWrites(rockets, n_rockets))
    /\ calls' = calls + 1
    /\ UNCHANGED outvars
    /\ UNCHANGED <<bodies, n_bodies, n_rockets, img, runvars>>

\* save_rocket_trails_bin("rocket_trails.bin", rockets, n_rockets)
TrailsSave ==
    /\ file' = save_rocket_trails_bin(file, rockets, n_rockets, writable)
    /\ last' = Call("save_rocket_trails_bin", 0, 0, {})
    /\ UNCHANGED <<p0, readback, line>>
    /\ UNCHANGED <<bodies, n_bodies, rockets, n_rockets, img, runvars, calls>>

\* The file just saved is read back.
TrailsRead ==
    /\ last.op = "save_rocket_trails_bin"
    /\ readback' = read_trails(file)
    /\ last' = [last EXCEPT !.op = "read_trails"]
    /\ UNCHANGED <<p0, file, line>>
    /\ UNCHANGED <<bodies, n_bodies, rockets, n_rockets, img, runvars, calls>>

TrailsNext == TrailsUpdateRockets \/ TrailsSave \/ TrailsRead

SpecTrails == TrailsInit /\ [][TrailsNext]_vars

\* ------------------------------------------------------------------------
\* Properties of SpecTrails
\* ------------------------------------------------------------------------

\* The samples 0..len-1 of a trail, as pairs <<x, y>> in order.
Samples(r) == [k \in 1..r.trail_length |-> <<r.trail_x[k], r.trail_y[k]>>]

\* The number of samples in the trails of the rockets 1..n.
RECURSIVE TotalSamples(_, _)
TotalSamples(rs, n) ==
    IF n = 0 THEN 0 ELSE rs[n].trail_length + TotalSamples(rs, n - 1)

\* C21: the trajectory dump round-trips: what is read back from the file
\* that save_rocket_trails_bin wrote has the rocket count, and for every
\* rocket in order its trail length and every (x, y) sample of its trail
\* in order, for no rocket at all, for empty trails and for full ones.
C21_TrailsRoundTrip ==
    (last.op = "read_trails" /\ writable) =>
        /\ readback.n_rockets = n_rockets
        /\ Len(readback.trails) = n_rockets
        /\ \A i \in 1..n_rockets :
              /\ readback.trails[i].trail_length = rockets[i].trail_length
              /\ Samples(readback.trails[i]) = Samples(rockets[i])
        /\ Len(file) = 4 + 4 * n_rockets + 16 * TotalSamples(rockets, n_rockets)

\* Three rockets with trails of different lengths, with negative
\* coordinates, one of them frozen outside the area, were saved and read
\* back.
C21_Witness ==
    /\ last.op = "read_trails" /\ writable
    /\ n_rockets = 3
    /\ readback.trails[1].trail_length = 1
    /\ readback.trails[2].trail_length = 2
    /\ readback.trails[3].trail_length = 2
    /\ readback.trails[2].trail_y[1] = 0 - Lit(3, 1)
    /\ readback.trails[3].trail_x[2] < 0 - Lit(50, 1)
    /\ rockets[3].active = 0

\* The last sample of the trail of r is its position.
LastSampleIsPosition(r) ==
    /\ r.trail_length >= 1
    /\ r.trail_x[r.trail_length] = r.x
    /\ r.trail_y[r.trail_length] = r.y

\* C26: update_rockets appends to the trail before it checks the distance.
\* A rocket that was active and had room in its trail before the call has
\* one sample more after it, the position it has now, whether or not the
\* call deactivated it; and once update_rockets has been called, every
\* rocket that was active at the start and whose trail is not full has its
\* position as the last sample of its trail, frozen or not.
C26_LastSampleIsPosition ==
    /\ last.op = "update_rockets" =>
          \A i \in 1..n_rockets :
              (last.rockets[i].active = 1 /\ TrailHasRoom(last.rockets[i])) =>
                  /\ rockets[i].trail_length
                        = last.rockets[i].trail_length + 1
                  /\ LastSampleIsPosition(rockets[i])
    /\ calls >= 1 =>
          \A i \in 1..n_rockets :
              TrailHasRoom(rockets[i]) => LastSampleIsPosition(rockets[i])

\* A rocket was deactivated by a call that recorded its position outside
\* the area, its trail still has room, and a later call left it frozen.
C26_Witness ==
    /\ calls >= 2
    /\ n_rockets >= 1
    /\ rockets[1].active = 0
    /\ TrailHasRoom(rockets[1])
    /\ rockets[1].trail_length = 2
    /\ rockets[1].trail_x[2] = rockets[1].x
    /\ rockets[1].x > LEAVE_DISTANCE


\* ------------------------------------------------------------------------
\* Missing input files (SpecRun)
\* ------------------------------------------------------------------------

\* The config of test_missing_files (test_file_io.c line 126).
TestConfig == [DefaultConfig EXCEPT !.save_interval = 0]

\* C22: missing input files are handled without failure.  A loader that
\* cannot open its file returns -1 and leaves its output argument as it
\* was, whatever the argument holds; in the run a missing config.txt
\* leaves the config as main initialised it, a missing bodies.txt gives the
\* five default bodies and a missing rockets.txt the one default rocket,
\* active and with its start position as the first trail sample.
C22_MissingInputFiles ==
    /\ \A f \in BodyFiles, bs \in {<<>>, init_bodies_default} :
          LoadBodiesCall(f, FALSE, bs) = [ret |-> 0 - 1, out |-> bs]
    /\ \A f \in RocketFiles, rs \in {<<>>, init_rockets_default} :
          LoadRocketsCall(f, FALSE, rs) = [ret |-> 0 - 1, out |-> rs]
    /\ \A f \in ConfigFiles, c \in {DefaultConfig, TestConfig} :
          LoadConfigCall(f, FALSE, c) = [ret |-> 0 - 1, out |-> c]
    /\ (last.op = "load_config" /\ ~last.ok) =>
          /\ last.ret = 0 - 1
          /\ config = DefaultConfig
    /\ (last.op = "load_bodies" /\ ~last.ok) =>
          /\ last.ret = 0 - 1
          /\ bodies = init_bodies_default
          /\ n_bodies = 5
    /\ (last.op = "load_rockets" /\ ~last.ok) =>
          /\ last.ret = 0 - 1
          /\ rockets = init_rockets_default
          /\ n_rockets = 1
          /\ rockets[1].active = 1
          /\ rockets[1].trail_length = 1
          /\ rockets[1].trail_x[1] = rockets[1].x
    /\ pc \in {"load_rockets", "setup"} => n_bodies = Len(bodies)
    /\ pc = "setup" => n_rockets = Len(rockets)

\* No input file could be opened, and the run is about to start with the
\* default config, bodies and rocket.
C22_Witness ==
    /\ pc = "setup"
    /\ last.op = "load_rockets" /\ ~last.ok
    /\ config = DefaultConfig
    /\ bodies = init_bodies_default /\ n_bodies = 5
    /\ rockets = init_rockets_default /\ n_rockets = 1


\* ------------------------------------------------------------------------
\* Accelerations are recomputed from scratch (SpecKernel)
\* ------------------------------------------------------------------------

\* The bodies with their accelerations replaced by a and -a.
WithAccelerations(bs, a) ==
    [i \in 1..Len(bs) |-> [bs[i] EXCEPT !.ax = a, !.ay = 0 - a]]

\* C23: compute_forces resets and then accumulates.  The accelerations it
\* leaves are those it leaves when the bodies come with any other values of
\* ax and ay, zero included; it changes nothing but ax and ay; and a second
\* call on its own result, the bodies not moved, leaves that result as it
\* is.
C23_ResetThenAccumulate ==
    last.op = "compute_forces" =>
        /\ \A a \in StackGarbage \cup {0, Lit(5, 1)} :
              compute_forces(WithAccelerations(last.bodies, a), n_bodies,
                             last.g) = bodies
        /\ WithAccelerations(bodies, 0) = WithAccelerations(last.bodies, 0)
        /\ compute_forces(bodies, n_bodies, last.g) = bodies

\* compute_forces was called twice in a row with the same g on bodies that
\* came with accelerations other than zero: the second call left the
\* accelerations of the first, which are not zero.
C23_Witness ==
    /\ calls = 2
    /\ last.op = "compute_forces"
    /\ last.prev_bodies # <<>>
    /\ last.prev_bodies[1].ax # 0
    /\ last.bodies # last.prev_bodies
    /\ bodies = last.bodies
    /\ bodies[1].ax # 0
    /\ bodies[1].ax # last.prev_bodies[1].ax


\* ------------------------------------------------------------------------
\* The colours of the trail segments (SpecScene)
\* ------------------------------------------------------------------------

\* The trail lengths for which the brightness is computed: the short ones,
\* and that of a full trail of the program (5000 samples).
TrailLengths == 0..40 \cup {4999, 5000}

\* The colours of the draw_line calls of the rockets i..n, in order, as
\* C24 gives them.
RECURSIVE SegmentColours(_, _, _)
SegmentColours(rs, i, n) ==
    IF i > n THEN <<>>
    ELSE [t1 \in 1..(rs[i].trail_length - 1) |->
             LET b == 100 + (155 * (t1 - 1)) \div Max(1, rs[i].trail_length)
             IN  <<b, b \div 2, b \div 2>>]
         \o SegmentColours(rs, i + 1, n)

IsLine(op) == op.kind = "line"

\* The colours of the lines of a buffer, in the order they were drawn.
LineColours(buf) ==
    LET lines == SelectSeq(buf, IsLine)
    IN  [k \in 1..Len(lines) |-> lines[k].rgb]

\* C24: for a trail of length L the brightness of segment t, 0 <= t <= L-2,
\* is 100 + (155 * t) / max(1, L) in integer division; it does not decrease
\* with t and lies in 100..254; and the lines that render draws for the
\* trails have the colours (brightness, brightness / 2, brightness / 2), in
\* the order of the rockets and of the segments.
C24_SegmentBrightness ==
    /\ \A L \in TrailLengths :
          \A t \in 0..(L - 2) :
              /\ Brightness(t, L) = 100 + (155 * t) \div Max(1, L)
              /\ Brightness(t, L) >= 100
              /\ Brightness(t, L) <= 254
              /\ t > 0 => Brightness(t - 1, L) <= Brightness(t, L)
    /\ last.op = "render" =>
          LineColours(img) = SegmentColours(rockets, 1, n_rockets)

\* A frame was rendered of a rocket whose trail has three samples: its two
\* segments have the brightness 100 and 151.
C24_Witness ==
    /\ last.op = "render"
    /\ n_rockets = 2
    /\ rockets[2].trail_length = 3
    /\ Len(LineColours(img)) >= 2
    /\ LineColours(img)[Len(LineColours(img))] = <<151, 75, 75>>
    /\ LineColours(img)[Len(LineColours(img)) - 1] = <<100, 50, 50>>


\* ------------------------------------------------------------------------
\* The order in which render paints (SpecScene)
\* ------------------------------------------------------------------------

\* The operations of a list, as a set.
OpsOf(ops) == {ops[k] : k \in DOMAIN ops}

\* The pixels of the disc render draws for body i at the scale of the last
\* call, none if it draws no disc.
BodyDisc(i) ==
    UNION {ShapeWrites(op) : op \in OpsOf(BodyOp(bodies[i], i, last.scale))}

\* The pixels of the marker render draws for rocket i at the scale of the
\* last call, none if it draws no marker.
MarkerDisc(i) ==
    UNION {ShapeWrites(op) : op \in OpsOf(MarkerOps(rockets[i], last.scale))}

\* The pixels covered both by the disc of a body and by the marker of a
\* rocket.
BodyAndMarker ==
    UNION {BodyDisc(j) \cap MarkerDisc(i) :
              j \in 1..n_bodies, i \in 1..n_rockets}

\* C25 as claimed: render paints the grid, the trails, the bodies and then
\* the current positions of the rockets, so a pixel covered both by the disc
\* of a body and by the marker of a rocket ends with the marker's colour
\* (255, 50, 50).
C25_MarkerOverBody ==
    last.op = "render" =>
        \A layers \in {Layers(img)} :
            \A q \in BodyAndMarker :
                PixelAt(img, layers, q[1], q[2]) = <<255, 50, 50>>

\* What the code does: the bodies are painted after the trails and markers
\* of all rockets, so such a pixel ends with the colour of a body, never
\* with the marker's.
C25_BodyOverMarker ==
    last.op = "render" =>
        \A layers \in {Layers(img)} :
            \A q \in BodyAndMarker :
                /\ PixelAt(img, layers, q[1], q[2]) # <<255, 50, 50>>
                /\ \E j \in 1..n_bodies :
                      /\ q \in BodyDisc(j)
                      /\ \E k \in DOMAIN img :
                            /\ <<img[k]>> = BodyOp(bodies[j], j, last.scale)
                            /\ PixelAt(img, layers, q[1], q[2]) = img[k].rgb

\* A frame was rendered in which the marker of a rocket lies on the disc
\* of the second body.
C25_Overlap ==
    /\ last.op = "render"
    /\ BodyAndMarker # {}
    /\ \E q \in BodyAndMarker :
          \A layers \in {Layers(img)} :
              PixelAt(img, layers, q[1], q[2]) = <<130, 150, 255>>


\* ------------------------------------------------------------------------
\* SpecShade: render called on up to MAX_BODIES bodies in a row
\* ------------------------------------------------------------------------

\* Body i (from 1) of a row of bodies half a unit apart, which at scale 50
\* project to row 400 and the columns 175, 200, ...: discs that do not
\* touch.
RowBody(i) == NewBody(Lit(i, 2) - Lit(5, 1), 0, 0, 0, Lit(1, 1))

ShadeInit ==
    /\ \E n \in 1..MAX_BODIES : bodies = [i \in 1..n |-> RowBody(i)]
    /\ n_bodies = Len(bodies)
    /\ rockets = <<>>
    /\ n_rockets = 0
    /\ img \in PriorBuffers
    /\ config = DefaultConfig
    /\ pc = "shade"
    /\ step = 0
    /\ frame_interval = 0
    /\ frames = <<>>
    /\ writable = TRUE
    /\ last = NoCall
    /\ calls = 0
    /\ p0 = <<0, 0>>
    /\ file = <<>>
    /\ readback = <<>>
    /\ line = <<>>

\* render(bodies, n_bodies, rockets, n_rockets, img, scale)
ShadeRender ==
    /\ \E scale \in SceneScales :
          /\ img' = render(bodies, n_bodies, rockets, n_rockets, img, scale)
          /\ last' = RenderCall(scale)
    /\ UNCHANGED outvars
    /\ UNCHANGED <<bodies, n_bodies, rockets, n_rockets, runvars, calls>>

ShadeNext == ShadeRender

SpecShade == ShadeInit /\ [][ShadeNext]_vars

\* ------------------------------------------------------------------------
\* Properties of SpecShade
\* ------------------------------------------------------------------------

\* The colour of the pixel at the projected centre of body i after the last
\* render call.
CentreColour(layers, i) ==
    PixelAt(img, layers, ProjectX(bodies[i].x, last.scale),
            ProjectY(bodies[i].y, last.scale))

\* C29 as claimed: the shade of a body other than the first does not wrap:
\* for every C index c with 1 <= c < MAX_BODIES the red channel is
\* 100 + 30 * c, so the red values of the bodies increase with the index.
C29_ShadeDoesNotWrap ==
    (last.op = "render" /\ last.scale = Lit(50, 1)) =>
        \A layers \in {Layers(img)} :
            \A i \in 2..n_bodies :
                /\ CentreColour(layers, i)[1] = 100 + 30 * (i - 1)
                /\ i > 2 => CentreColour(layers, i - 1)[1]
                               < CentreColour(layers, i)[1]

\* What the code does: the red channel is 100 + 30 * c reduced modulo 256;
\* it is 100 + 30 * c up to c = 5, and drops to 24 at c = 6.
C29_ShadeWraps ==
    (last.op = "render" /\ last.scale = Lit(50, 1)) =>
        \A layers \in {Layers(img)} :
            \A i \in 2..n_bodies :
                /\ CentreColour(layers, i)
                      = <<(100 + 30 * (i - 1)) % 256, 150, 255>>
                /\ i <= 6 => CentreColour(layers, i)[1] = 100 + 30 * (i - 1)

\* A frame of seven bodies was rendered: the last one has the red value 24.
C29_Wrapped ==
    /\ last.op = "render" /\ last.scale = Lit(50, 1)
    /\ n_bodies = 7
    /\ \A layers \in {Layers(img)} :
          CentreColour(layers, 7) = <<24, 150, 255>>


\* ------------------------------------------------------------------------
\* The frame interval and the number of frames (SpecRun)
\* ------------------------------------------------------------------------

\* C27 as claimed: the run loop never divides by zero: config.frames is not
\* zero where config.steps / config.frames is evaluated, and frame_interval
\* is strictly positive where step % frame_interval and
\* step / frame_interval are evaluated.
C27_NeverDividesByZero ==
    /\ pc = "setup" => config.frames # 0
    /\ pc = "frame" => frame_interval > 0
    /\ pc # "crashed"

\* What the code does: the run ends in a division by zero exactly when
\* frames is 0, or when steps is positive, save_interval is not and
\* steps / frames is 0.
C27_DividesByZeroWhen ==
    /\ pc = "crashed" =>
          \/ config.frames = 0
          \/ /\ config.steps > 0
             /\ config.save_interval <= 0
             /\ CDiv(config.steps, config.frames) = 0
    /\ pc \in {"save", "done"} =>
          /\ config.frames # 0
          /\ config.steps > 0 => frame_interval # 0

\* A config.txt with frames=0 ended the run at line 54.
C27_CrashAtSetup ==
    /\ pc = "crashed"
    /\ config.frames = 0
    /\ step = 0 /\ calls = 0

\* A config.txt with steps=1, frames=2, save_interval=0 ended the run at
\* line 90, after the first update of bodies and rockets.
C27_CrashAtFrame ==
    /\ pc = "crashed"
    /\ config.frames = 2 /\ config.steps = 1
    /\ frame_interval = 0
    /\ calls = 2

\* A config.txt with frames=-1 gave a negative frame_interval, with which
\* the run came to its end.
C27_NegativeInterval ==
    /\ pc = "done"
    /\ frame_interval < 0

C28_MatchingConfig ==
    /\ pc = "done"
    /\ config.steps = 4 /\ config.frames = 2 /\ config.save_interval = 0
    /\ Len(frames) = 2
    /\ frames[2].step = 2

\* ------------------------------------------------------------------------
\* draw_line, one pass of its loop at a time (SpecLine)
\* ------------------------------------------------------------------------

\* The largest number of passes through the loop that are followed.
LineIters == 8

\* End points <<x1, y1, x2, y2>> at most LineIters pixels apart: inside the
\* buffer, across its edges, outside it, in all eight directions, and of
\* length zero.
NearEnds ==
    {<<0, 0, 5, 2>>, <<5, 2, 0, 0>>, <<3, 3, 3, 3>>, <<10, 10, 10, 16>>,
     <<10, 16, 10, 10>>, <<10, 10, 17, 10>>, <<0, 0, 6, 6>>, <<2, 7, 9, 1>>,
     <<400, 400, 395, 408>>, <<797, 798, 803, 795>>, <<0 - 3, 2, 2, 0 - 1>>,
     <<0 - 5, 0 - 5, 0 - 1, 0 - 9>>, <<805, 3, 799, 1>>,
     <<799, 799, 799, 799>>, <<800, 5, 800, 5>>}

\* End points far apart.  (-999999600, 400) and (1000000400, 400) are the
\* projections at scale 50 of the two trail samples of a rocket that starts
\* at x = -2e7 with vx = 4e9 and takes one step of dt = 0.01.
FarEnds ==
    {<<0, 0, 1073741823, 0>>, <<0, 0, 1073741824, 0>>,
     <<0 - 999999600, 400, 1000000400, 400>>,
     <<0 - 999999600, 400, 1000000400, 401>>}

LineEnds == NearEnds \cup FarEnds

\* The outcomes of a pass one of whose int operations overflows: the
\* builds without overflow checks wrap around, the builds with them
\* (-ftrapv, -fsanitize) end the program.
OverflowOutcomes(overflows) ==
    IF overflows THEN {"wrap", "trap"} ELSE {"exact"}

\* The call draw_line(img, x1, y1, x2, y2, r, g, b) has run lines 14-20.
LineInit ==
    /\ bodies = <<>>
    /\ n_bodies = 0
    /\ rockets = <<>>
    /\ n_rockets = 0
    /\ img = <<>>
    /\ config = DefaultConfig
    /\ pc = "line"
    /\ step = 0
    /\ frame_interval = 0
    /\ frames = <<>>
    /\ writable = TRUE
    /\ last = NoCall
    /\ calls = 0
    /\ p0 = <<0, 0>>
    /\ file = <<>>
    /\ readback = <<>>
    /\ \E q \in LineEnds :
          line = [ln      |-> LineLocals(q[1], q[2], q[3], q[4]),
                  x       |-> q[1],
                  y       |-> q[2],
                  err     |-> LineLocals(q[1], q[2], q[3], q[4]).err,
                  iter    |-> 0,
                  from    |-> <<q[1], q[2]>>,
                  visited |-> {}]

\* Lines 22-28 at the end point: the pixel is written and the loop left.
DrawLineBreak ==
    /\ pc = "line"
    /\ line.x = line.ln.x2 /\ line.y = line.ln.y2
    /\ line' = [line EXCEPT !.visited = @ \cup {<<line.x, line.y>>}]
    /\ pc' = "drawn"
    /\ UNCHANGED <<p0, file, readback>>
    /\ UNCHANGED <<bodies, n_bodies, rockets, n_rockets, img, config, step,
                   frame_interval, frames, writable, last, calls>>

\* Lines 22-38 elsewhere: the pixel is written and the position advanced.
DrawLinePass ==
    /\ pc = "line"
    /\ ~(line.x = line.ln.x2 /\ line.y = line.ln.y2)
    /\ line.iter < LineIters
    /\ \E outcome \in OverflowOutcomes(LineStepOverflows(line.err, line.ln)) :
          IF outcome = "trap"
          THEN /\ pc' = "trap"
               /\ line' = [line EXCEPT
                              !.visited = @ \cup {<<line.x, line.y>>}]
          ELSE /\ pc' = "line"
               /\ \A s \in {LineStep(line.x, line.y, line.err, line.ln)} :
                     line' = [line EXCEPT
                                 !.x = s.x, !.y = s.y, !.err = s.err,
                                 !.iter = @ + 1,
                                 !.from = <<line.x, line.y>>,
                                 !.visited = @ \cup {<<line.x, line.y>>}]
    /\ UNCHANGED <<p0, file, readback>>
    /\ UNCHANGED <<bodies, n_bodies, rockets, n_rockets, img, config, step,
                   frame_interval, frames, writable, last, calls>>

LineNext == DrawLineBreak \/ DrawLinePass

SpecLine == LineInit /\ [][LineNext]_vars

\* The number of passes after which a walk of unit moves can first be at
\* the end point.
LineLength == Max(line.ln.dx, line.ln.dy)

\* The walk is on its way to the end point: it has not been ended by an
\* overflow, the last pass moved at most one pixel along each axis, and
\* the end point is as many unit moves away as there are passes left of
\* the max(|x2 - x1|, |y2 - y1|).
LineOnTrack ==
    /\ pc # "trap"
    /\ Abs(line.x - line.from[1]) <= 1
    /\ Abs(line.y - line.from[2]) <= 1
    /\ Max(Abs(line.ln.x2 - line.x), Abs(line.ln.y2 - line.y))
           = LineLength - line.iter

\* The loop has been left at the end point after max(|x2 - x1|, |y2 - y1|)
\* passes, and each end point that lies in the buffer has been written.
LineArrived ==
    /\ line.x = line.ln.x2 /\ line.y = line.ln.y2
    /\ line.iter = LineLength
    /\ Clip({<<line.ln.x1, line.ln.y1>>, <<line.ln.x2, line.ln.y2>>})
           \subseteq Clip(line.visited)

\* C30: for every pair of end points draw_line's loop reaches (x2, y2)
\* after exactly max(|x2 - x1|, |y2 - y1|) passes, each pass moves at most
\* one pixel in x and at most one in y, and both end points are written
\* when they are in bounds.
C30_DrawLineTerminates ==
    /\ LineOnTrack
    /\ (pc = "drawn") => LineArrived

\* What holds instead: the statement is true of the end points for which
\* the error term stays below 2^30 in size, and there the points visited
\* are those of LinePoints.
C30_WithinRange ==
    (line.ln.dx + line.ln.dy <= 1073741823) =>
        /\ C30_DrawLineTerminates
        /\ (pc = "drawn") =>
               line.visited = LinePoints(line.ln.x1, line.ln.y1,
                                         line.ln.x2, line.ln.y2)

\* A line across the right edge of the buffer has been drawn.
C30_Drawn ==
    /\ pc = "drawn"
    /\ line.ln.x1 = 797 /\ line.ln.x2 = 803
    /\ line.iter = 6
    /\ <<799, 797>> \in Clip(line.visited)
    /\ Clip(line.visited) # line.visited

\* The first pass of the line from (-999999600, 400) to (1000000400, 400)
\* has wrapped around: it moved along y, away from the horizontal line.
C30_Astray ==
    /\ pc = "line"
    /\ line.ln.x1 = 0 - 999999600 /\ line.ln.dy = 0
    /\ line.iter = 1
    /\ line.x = line.ln.x1
    /\ line.y = 399

\* The overflow has ended the program.
C30_Trapped ==
    /\ pc = "trap"
    /\ line.ln.dx = 1073741824

====
